---- MODULE Spec2Model ----
(***************************************************************************)
(* Indexed reading of OSI traces.                                          *)
(*                                                                         *)
(*  - the flat reader _OSITraceSingle (osi3trace/osi_trace.py): a stream   *)
(*    of [4-byte little-endian length][payload] records, an offset table   *)
(*    built while reading, an optional cache of decoded messages;          *)
(*  - the chunked reader IndexedSeekingReader                              *)
(*    (osi3trace/indexed_mcap_reader.py): a merge of the chunks of an MCAP *)
(*    container that numbers the records it emits and remembers where      *)
(*    each one lives;                                                      *)
(*  - the facade OSITrace (osi3trace/osi_trace.py) over the flat reader    *)
(*    and over _OSITraceMulti, the reader of one topic of an MCAP          *)
(*    container.                                                           *)
(*                                                                         *)
(* Every public method is one action.  A method's body is an operator on a *)
(* record of the reader's fields that returns the fields after the call    *)
(* and the value returned (or the exception raised), so that methods       *)
(* calling each other compose as they do in the source.                    *)
(***************************************************************************)
EXTENDS Integers, Sequences, FiniteSets, TLC

(***************************************************************************)
(* Bounds of the model.                                                    *)
(***************************************************************************)
\* complete records in a flat stream: 0..MaxRecords
MaxRecords == 2
\* payload length of a record: 0..MaxPayload
MaxPayload == 1
\* index arguments passed to the flat reader's methods: 0..MaxRecords+MaxOver
MaxOver == 1

\* chunks in a chunked container: 1..MaxChunks
MaxChunks == 2
\* log times of the messages of a chunked container: 0..MaxTime
MaxTime == 1
\* generator objects of iter_messages a client holds at once: 1..MaxGens
MaxGens == 1

\* iterator objects _OSITraceMulti gets from the mcap reader: 0..MaxIters
MaxIters == 2

\* byte values payloads are drawn from
PayloadBytes == {1}

(***************************************************************************)
(* Flat container format.                                                  *)
(***************************************************************************)
\* self._header_length
header_length == 4

\* struct.unpack("<L", header)[0]
unpack(header) ==
    header[1] + 256 * header[2] + 65536 * header[3] + 16777216 * header[4]

\* one record as the reader expects it on disk: "<L" length, then the payload
\* (payloads of the model are shorter than 256 bytes)
Record(payload) == <<Len(payload), 0, 0, 0>> \o payload

RECURSIVE Concat(_)
Concat(recs) ==
    IF recs = <<>> THEN <<>> ELSE Record(Head(recs)) \o Concat(Tail(recs))

RECURSIVE SeqsUpTo(_, _)
SeqsUpTo(S, n) ==
    IF n = 0 THEN {<<>>}
    ELSE LET shorter == SeqsUpTo(S, n - 1)
         IN  shorter \cup {Append(s, x) : s \in shorter, x \in S}

Payloads == SeqsUpTo(PayloadBytes, MaxPayload)

\* what a writer interrupted inside a record leaves behind: a strict,
\* non-empty prefix of a record, here one cut inside the length prefix (after
\* its first byte), one cut right after it (the whole payload missing) or
\* one cut before the last byte of the payload; <<>> when the stream ends at
\* a record boundary
Truncations ==
    {<<>>} \cup
    UNION {{SubSeq(Record(p), 1, n) : n \in {1, header_length, Len(Record(p)) - 1}} :
              p \in Payloads \ {<<>>}}

(***************************************************************************)
(* State.                                                                  *)
(***************************************************************************)
VARIABLES
    strategy,         \* "flat": _OSITraceSingle, "chunked": IndexedSeekingReader,
                      \* "multi": _OSITraceMulti
    \* ---- flat reader
    records,          \* the payloads of the complete records the stream holds
    file,             \* the bytes of the stream
    compressed,       \* the stream is an lzma.open file: a seek stops at its end
    pos,              \* self.file.tell()
    current_index,    \* self.current_index
    message_offsets,  \* self.message_offsets
    read_complete,    \* self.read_complete
    cache_messages,   \* message_cache is a dict (TRUE) or None (FALSE)
    message_cache,    \* self.message_cache: a set of <<index, message>>
    last,             \* the last call: method, arguments, what it returned
    run,              \* the messages a plain iteration has yielded so far
    twin,             \* a second _OSITraceSingle, opened on the same stream with
                      \* cache_messages=False, on which the same calls are made
    \* ---- chunked reader
    chunks,           \* the container: its chunks, as the summary lists them
    index_map,        \* self._index_map: <<chunk_offset, idx_in_chunk>> entries
    gens,             \* the generators iter_messages has returned to the client
    got,              \* the call just made, if one of get: argument, result
    decoders,         \* self._decoders: the channels with a decoder stored
    factories,        \* self._decoder_factories: the channels for whose
                      \* encoding and schema one of them returns a decoder
    \* ---- _OSITraceMulti (its container is chunks, its last call is last)
    self_topic,       \* self.topic
    iter,             \* self._iter: 0 for None, else the place in iters
    iters,            \* the iterators made by self._mcap_reader.iter_messages:
                      \* for each the number of messages it has handed out
    loops             \* the generators __iter__ has returned to the client

flatVars == <<records, file, compressed, pos, current_index, message_offsets,
              read_complete, cache_messages, message_cache, last, run, twin>>

chunkVars == <<chunks, index_map, gens, got, decoders, factories>>

multiVars == <<self_topic, iter, iters, loops>>

\* the fields of an _OSITraceSingle
singleVars == <<pos, current_index, message_offsets, read_complete, message_cache>>

vars == <<strategy, flatVars, chunkVars, multiVars>>

(***************************************************************************)
(* Values returned by a call.                                              *)
(***************************************************************************)
NoIndex == -1

Returned(kind, msg, val, tab) ==
    [kind |-> kind, msg |-> msg, val |-> val, tab |-> tab]

None == Returned("None", <<>>, 0, <<>>)
IndexError == Returned("IndexError", <<>>, 0, <<>>)
NotImplementedError == Returned("NotImplementedError", <<>>, 0, <<>>)
Message(m) == Returned("message", m, 0, <<>>)
Offset(v) == Returned("offset", <<>>, v, <<>>)
Table(t) == Returned("table", <<>>, 0, t)
\* what list() makes of a generator of messages
Messages(ms) == Returned("messages", <<>>, 0, ms)

\* message = self.type(); message.ParseFromString(message_data)
ParseFromString(message_data) == [data |-> message_data]

(***************************************************************************)
(* The stream handle: self.file.                                           *)
(***************************************************************************)
\* file.seek(offset, 0): a plain file takes any offset, also one beyond its
\* end; an LZMAFile reads forward and stops at the end of the data
seek(offset) ==
    IF compressed /\ offset > Len(file) THEN Len(file) ELSE offset

\* file.seek(0, 2)
seek_end == Len(file)

\* file.read(n) at position p: the bytes there are, at most n
read(p, n) ==
    LET stop == IF p + n < Len(file) THEN p + n ELSE Len(file)
    IN  IF p >= Len(file) THEN <<>> ELSE SubSeq(file, p + 1, stop)

(***************************************************************************)
(* _OSITraceSingle.  A reader is the record of its fields.                 *)
(***************************************************************************)
Self ==
    [pos |-> pos, current_index |-> current_index,
     message_offsets |-> message_offsets, read_complete |-> read_complete,
     message_cache |-> message_cache,
     \* self.message_cache is not None
     caching |-> cache_messages]

\* the outcome of a call: the fields after it, the value returned or raised
Out(s, res) == [st |-> s, res |-> res]

Raised(r) == r.res.kind = "IndexError"

SeqLast(t) == t[Len(t)]
Front(t) == SubSeq(t, 1, Len(t) - 1)

\* the dict self.message_cache
InCache(cache, k) == \E e \in cache : e[1] = k
CacheGet(cache, k) == (CHOOSE e \in cache : e[1] = k)[2]
CachePut(cache, k, m) == {e \in cache : e[1] # k} \cup {<<k, m>>}

\* faulty variant of short_read: end-of-stream is recorded but the sentinel
\* is left in the table
short_read_keeps_sentinel(s, start, at) ==
    IF s.message_offsets = <<>>
    THEN Out([s EXCEPT !.pos = at], IndexError)
    ELSE IF start = SeqLast(s.message_offsets)
    THEN Out([s EXCEPT !.read_complete = TRUE, !.pos = seek(start)], None)
    ELSE Out([s EXCEPT !.pos = seek(start)], None)

\* faulty variant of short_read: the last entry of the table is popped
\* wherever the short read started
short_read_pops_always(s, start, at) ==
    IF s.message_offsets = <<>>
    THEN Out([s EXCEPT !.pos = at], IndexError)
    ELSE Out([s EXCEPT !.message_offsets = Front(s.message_offsets),
                       !.read_complete = TRUE,
                       !.pos = seek(start)], None)

\* retrieve_message, the three places where the record at start is short:
\*     if start == self.message_offsets[-1]:
\*         self.message_offsets.pop(); self.read_complete = True
\*     self.file.seek(start, 0); return None
\* at is where the short read left the stream; message_offsets[-1] of an
\* empty list raises before the seek back
short_read(s, start, at) ==
    IF s.message_offsets = <<>>
    THEN Out([s EXCEPT !.pos = at], IndexError)
    ELSE IF start = SeqLast(s.message_offsets)
    THEN Out([s EXCEPT !.message_offsets = Front(s.message_offsets),
                       !.read_complete = TRUE,
                       !.pos = seek(start)], None)
    ELSE Out([s EXCEPT !.pos = seek(start)], None)

\* faulty variant of skip_payload: the new position is appended to the table
\* whether or not the read started at the table's last entry
skip_payload_appends_always(s, start, message_length) ==
    LET new_pos == seek(start + header_length + message_length)
        s1 == [s EXCEPT !.pos = new_pos]
        s2 == [s1 EXCEPT !.current_index = s.current_index + 1]
    IN  IF new_pos - start < message_length + header_length
        THEN short_read(s1, start, new_pos)
        ELSE IF s2.message_offsets = <<>>
        THEN Out(s2, IndexError)
        ELSE Out([s2 EXCEPT !.message_offsets = Append(s2.message_offsets, new_pos)],
                 Offset(new_pos))

\* retrieve_message with skip: seek over the payload
skip_payload(s, start, message_length) ==
    LET new_pos == seek(start + header_length + message_length)
        s1 == [s EXCEPT !.pos = new_pos]
        s2 == [s1 EXCEPT !.current_index = s.current_index + 1]
    IN  IF new_pos - start < message_length + header_length
        THEN short_read(s1, start, new_pos)
        ELSE IF s2.message_offsets = <<>>
        THEN Out(s2, IndexError)
        ELSE IF start = SeqLast(s2.message_offsets)
        THEN Out([s2 EXCEPT !.message_offsets = Append(s2.message_offsets, new_pos)],
                 Offset(new_pos))
        ELSE Out(s2, Offset(new_pos))

\* faulty variant of read_payload: the length of the payload read is not
\* compared with the declared length
read_payload_unchecked(s, start, message_length) ==
    LET message_data == read(start + header_length, message_length)
        at == start + header_length + Len(message_data)
        s2 == [s EXCEPT !.pos = at, !.current_index = s.current_index + 1]
        message == ParseFromString(message_data)
    IN  IF s2.message_offsets = <<>>
        THEN Out(s2, IndexError)
        ELSE IF start = SeqLast(s2.message_offsets)
        THEN Out([s2 EXCEPT !.message_offsets = Append(s2.message_offsets, at)],
                 Message(message))
        ELSE Out(s2, Message(message))

\* faulty variant of read_payload: with the cache on, every record decoded
\* is stored under current_index, wherever the read started
read_payload_caches_always(s, start, message_length) ==
    LET message_data == read(start + header_length, message_length)
        at == start + header_length + Len(message_data)
        s1 == [s EXCEPT !.pos = at]
        s2 == [s1 EXCEPT !.current_index = s.current_index + 1,
                         !.message_cache =
                             IF s.caching
                             THEN CachePut(s.message_cache, s.current_index,
                                           ParseFromString(message_data))
                             ELSE s.message_cache]
        message == ParseFromString(message_data)
    IN  IF Len(message_data) < message_length
        THEN short_read(s1, start, at)
        ELSE IF s2.message_offsets = <<>>
        THEN Out(s2, IndexError)
        ELSE IF start = SeqLast(s2.message_offsets)
        THEN Out([s2 EXCEPT !.message_offsets = Append(s2.message_offsets, at)],
                 Message(message))
        ELSE Out(s2, Message(message))

\* retrieve_message without skip: read and decode the payload
read_payload(s, start, message_length) ==
    LET message_data == read(start + header_length, message_length)
        at == start + header_length + Len(message_data)
        s1 == [s EXCEPT !.pos = at]
        s2 == [s1 EXCEPT !.current_index = s.current_index + 1]
        message == ParseFromString(message_data)
    IN  IF Len(message_data) < message_length
        THEN short_read(s1, start, at)
        ELSE IF s2.message_offsets = <<>>
        THEN Out(s2, IndexError)
        ELSE IF start = SeqLast(s2.message_offsets)
        THEN Out([s2 EXCEPT
                    !.message_cache =
                        IF s.caching
                        THEN CachePut(s2.message_cache,
                                      Len(s2.message_offsets) - 1, message)
                        ELSE s2.message_cache,
                    !.message_offsets = Append(s2.message_offsets, at)],
                 Message(message))
        ELSE Out(s2, Message(message))

\* retrieve_message from start = self.file.tell() on
read_record(s, skip) ==
    LET start == s.pos
        header == read(start, header_length)
    IN  IF Len(header) < header_length
        THEN short_read([s EXCEPT !.pos = start + Len(header)], start,
                        start + Len(header))
        ELSE IF skip
        THEN skip_payload(s, start, unpack(header))
        ELSE read_payload(s, start, unpack(header))

\* retrieve_message, the branch taken when current_index is in the cache
cached_record(s, skip) ==
    LET message == CacheGet(s.message_cache, s.current_index)
        next == s.current_index + 1
        s1 == [s EXCEPT !.current_index = next]
    IN  IF next = Len(s.message_offsets)
        THEN IF skip
             THEN Out([s1 EXCEPT !.pos = seek_end], IndexError)
             ELSE Out([s1 EXCEPT !.pos = seek_end], Message(message))
        ELSE IF next > Len(s.message_offsets)
        THEN Out(s1, IndexError)
        ELSE LET s2 == [s1 EXCEPT !.pos = seek(s.message_offsets[next + 1])]
             IN  IF skip
                 THEN Out(s2, Offset(s.message_offsets[next + 1]))
                 ELSE Out(s2, Message(message))

\* retrieve_message once any index given has been applied
retrieve_next(s, skip) ==
    IF s.caching /\ InCache(s.message_cache, s.current_index)
    THEN cached_record(s, skip)
    ELSE read_record(s, skip)

\* def retrieve_message(self, index=None, skip=False)
retrieve_message(s, index, skip) ==
    IF index # NoIndex
    THEN IF index >= Len(s.message_offsets)
         THEN Out([s EXCEPT !.current_index = index], IndexError)
         ELSE retrieve_next([s EXCEPT !.current_index = index,
                                      !.pos = seek(s.message_offsets[index + 1])],
                            skip)
    ELSE retrieve_next(s, skip)

\* NoLimit stands for limit=None; "not limit" holds for None and for 0
NoLimit == -1

\* retrieve_offsets, its while loop
\* faulty variant of more_offsets: limit compared as a number whatever it is
more_offsets_below_limit(s, limit) ==
    ~s.read_complete /\ Len(s.message_offsets) <= limit

\* the condition of the while loop of retrieve_offsets; "not limit" holds of
\* None and of 0
more_offsets(s, limit) ==
    ~s.read_complete /\ (limit <= 0 \/ Len(s.message_offsets) <= limit)

RECURSIVE offsets_loop(_, _)
offsets_loop(s, limit) ==
    IF more_offsets(s, limit)
    THEN LET r == retrieve_message(s, NoIndex, TRUE)
         IN  IF Raised(r) THEN r ELSE offsets_loop(r.st, limit)
    ELSE Out(s, Table(s.message_offsets))

\* def retrieve_offsets(self, limit=None)
retrieve_offsets(s, limit) ==
    IF ~s.read_complete
    THEN offsets_loop([s EXCEPT !.current_index = Len(s.message_offsets) - 1,
                                !.pos = seek(SeqLast(s.message_offsets))],
                      limit)
    ELSE offsets_loop(s, limit)

\* faulty variant of restart: the reader is rewound as __init__ leaves it,
\* the table and read_complete with it
restart_forgets_table(s, index) ==
    LET target == IF index = NoIndex THEN 0 ELSE index
        s1 == [s EXCEPT !.current_index = target, !.message_offsets = <<0>>,
                        !.read_complete = FALSE]
    IN  IF target >= Len(s1.message_offsets)
        THEN Out(s1, IndexError)
        ELSE Out([s1 EXCEPT !.pos = seek(s1.message_offsets[target + 1])], None)

\* def restart(self, index=None): "index if index else 0"
restart(s, index) ==
    LET target == IF index = NoIndex THEN 0 ELSE index
        s1 == [s EXCEPT !.current_index = target]
    IN  IF target >= Len(s.message_offsets)
        THEN Out(s1, IndexError)
        ELSE Out([s1 EXCEPT !.pos = seek(s.message_offsets[target + 1])], None)

\* faulty variant of get_message_by_index: the final read does not pass the
\* index on and reads at the current position
get_message_by_index_no_seek(s, index) ==
    LET r == IF index >= Len(s.message_offsets)
             THEN retrieve_offsets(s, index)
             ELSE Out(s, None)
    IN  IF Raised(r) THEN r
        ELSE IF r.st.caching /\ InCache(r.st.message_cache, index)
        THEN Out(r.st, Message(CacheGet(r.st.message_cache, index)))
        ELSE retrieve_message(r.st, NoIndex, FALSE)

\* def get_message_by_index(self, index)
get_message_by_index(s, index) ==
    LET r == IF index >= Len(s.message_offsets)
             THEN retrieve_offsets(s, index)
             ELSE Out(s, None)
    IN  IF Raised(r) THEN r
        ELSE IF r.st.caching /\ InCache(r.st.message_cache, index)
        THEN Out(r.st, Message(CacheGet(r.st.message_cache, index)))
        ELSE retrieve_message(r.st, index, FALSE)

\* get_messages_in_index_range, its while loop, run until the generator
\* ends; acc holds the messages yielded so far, NoIndex stands for end=None
RECURSIVE range_loop(_, _, _, _)
range_loop(s, current, end, acc) ==
    IF end # NoIndex /\ current >= end
    THEN Out(s, Messages(acc))
    ELSE IF s.caching /\ InCache(s.message_cache, current)
    THEN range_loop(s, current + 1, end,
                    Append(acc, CacheGet(s.message_cache, current)))
    ELSE LET r == retrieve_message(s, NoIndex, FALSE)
         IN  IF r.res.kind = "message"
             THEN range_loop(r.st, current + 1, end, Append(acc, r.res.msg))
             ELSE IF Raised(r) THEN r
             ELSE Out(r.st, Messages(acc))

\* def get_messages_in_index_range(self, begin, end), consumed by list()
get_messages_in_index_range(s, begin, end) ==
    LET r == IF begin >= Len(s.message_offsets)
             THEN retrieve_offsets(s, begin)
             ELSE Out(s, None)
        started == restart(r.st, begin)
    IN  IF Raised(r) THEN r
        ELSE IF Raised(started) THEN started
        ELSE range_loop(started.st, begin, end, <<>>)

\* def get_messages(self): return self.get_messages_in_index_range(0, None)
get_messages(s) == get_messages_in_index_range(s, 0, NoIndex)

\* faulty variant of get_available_topics: an empty list instead of the error
get_available_topics_empty(s) == Out(s, Table(<<>>))

\* def get_available_topics(self): raise NotImplementedError(...)
get_available_topics(s) == Out(s, NotImplementedError)

\* def get_file_metadata(self): raise NotImplementedError(...)
get_file_metadata(s) == Out(s, NotImplementedError)

\* def get_channel_metadata(self): raise NotImplementedError(...)
get_channel_metadata(s) == Out(s, NotImplementedError)

(***************************************************************************)
(* Flat reader: construction and the calls a client makes.                 *)
(***************************************************************************)
Indices == 0..(MaxRecords + MaxOver)

Call(op, index, skip, res) ==
    [op |-> op, index |-> index, skip |-> skip, res |-> res,
     \* the second argument of a call that takes two
     end |-> NoIndex,
     \* the offset table did not reach index when the call was made
     cold |-> index >= Len(message_offsets),
     \* read_complete when the call was made
     done |-> read_complete,
     \* since construction the client has only iterated, called restart()
     \* and called retrieve_offsets(), each without argument
     plain |-> /\ last.plain
               /\ op \in {"__iter__", "restart", "retrieve_offsets"}
               /\ index \in {NoIndex, NoLimit}]

\* a plain iteration: restart (or construction), then nothing but steps of
\* "for message in trace"; over once the loop has ended
Run(from, out, ended) == [from |-> from, out |-> out, ended |-> ended, pure |-> TRUE]
NoRun == [from |-> 0, out |-> <<>>, ended |-> "no", pure |-> FALSE]

\* the reader as __init__ leaves it
Fresh ==
    [pos |-> 0, current_index |-> 0, message_offsets |-> <<0>>,
     read_complete |-> FALSE, message_cache |-> {}, caching |-> cache_messages]

\* the twin after a call: its fields, what the call returned or raised
Twin(r) == [on |-> TRUE, st |-> r.st, res |-> r.res]

\* no twin is followed
NoTwin == [on |-> FALSE, st |-> <<>>, res |-> None]

Apply(r) ==
    /\ pos' = r.st.pos
    /\ current_index' = r.st.current_index
    /\ message_offsets' = r.st.message_offsets
    /\ read_complete' = r.st.read_complete
    /\ message_cache' = r.st.message_cache

\* _OSITraceSingle.__init__ on an existing path
InitSingle ==
    /\ strategy = "flat"
    /\ records \in SeqsUpTo(Payloads, MaxRecords)
    /\ \E cut \in Truncations : file = Concat(records) \o cut
    /\ compressed \in BOOLEAN
    /\ cache_messages \in BOOLEAN
    /\ pos = 0
    /\ current_index = 0
    /\ message_offsets = <<0>>
    /\ read_complete = FALSE
    /\ message_cache = {}
    /\ last = [op |-> "__init__", index |-> NoIndex, skip |-> FALSE,
               res |-> None, end |-> NoIndex, cold |-> FALSE, done |-> FALSE, plain |-> TRUE]
    /\ run = Run(0, <<>>, "no")
    /\ chunks = <<>>
    /\ index_map = <<>>
    /\ gens = <<>>
    /\ got = <<>>
    /\ decoders = {}
    /\ factories = {}
    /\ self_topic = ""
    /\ iter = 0
    /\ iters = <<>>
    /\ loops = <<>>

InitFlat == InitSingle /\ twin = NoTwin

\* two readers on one stream, the first opened with cache_messages=True
InitTwin ==
    /\ InitSingle
    /\ cache_messages
    /\ twin = Twin(Out([Fresh EXCEPT !.caching = FALSE], None))

\* one step of __iter__: "while message := self.retrieve_message()"
Iterate ==
    /\ strategy = "flat"
    /\ LET r == retrieve_message(Self, NoIndex, FALSE)
       IN  /\ Apply(r)
           /\ twin' = IF twin.on THEN Twin(retrieve_message(twin.st, NoIndex, FALSE)) ELSE twin
           /\ last' = Call("__iter__", NoIndex, FALSE, r.res)
           /\ run' = IF run.pure /\ run.ended = "no"
                     THEN CASE r.res.kind = "message" ->
                                   Run(run.from, Append(run.out, r.res.msg), "no")
                            [] OTHER -> Run(run.from, run.out, r.res.kind)
                     ELSE NoRun
    /\ UNCHANGED <<strategy, records, file, compressed, cache_messages, chunkVars,
                   multiVars>>

RetrieveMessage ==
    /\ strategy = "flat"
    /\ \E index \in Indices \cup {NoIndex}, skip \in BOOLEAN :
         \* the plain call is the step of __iter__
         /\ index # NoIndex \/ skip
         /\ LET r == retrieve_message(Self, index, skip)
            IN  /\ Apply(r)
                /\ twin' = IF twin.on THEN Twin(retrieve_message(twin.st, index, skip)) ELSE twin
                /\ last' = Call("retrieve_message", index, skip, r.res)
    /\ run' = NoRun
    /\ UNCHANGED <<strategy, records, file, compressed, cache_messages, chunkVars,
                   multiVars>>

RetrieveOffsets ==
    /\ strategy = "flat"
    /\ \E limit \in Indices \cup {NoLimit} :
         LET r == retrieve_offsets(Self, limit)
         IN  /\ Apply(r)
             /\ twin' = IF twin.on THEN Twin(retrieve_offsets(twin.st, limit)) ELSE twin
             /\ last' = Call("retrieve_offsets", limit, FALSE, r.res)
    /\ run' = NoRun
    /\ UNCHANGED <<strategy, records, file, compressed, cache_messages, chunkVars,
                   multiVars>>

Restart ==
    /\ strategy = "flat"
    /\ \E index \in Indices \cup {NoIndex} :
         LET r == restart(Self, index)
         IN  /\ Apply(r)
             /\ twin' = IF twin.on THEN Twin(restart(twin.st, index)) ELSE twin
             /\ last' = Call("restart", index, FALSE, r.res)
             /\ run' = IF Raised(r) THEN NoRun
                       ELSE Run(r.st.current_index, <<>>, "no")
    /\ UNCHANGED <<strategy, records, file, compressed, cache_messages, chunkVars,
                   multiVars>>

GetMessageByIndex ==
    /\ strategy = "flat"
    /\ \E index \in Indices :
         LET r == get_message_by_index(Self, index)
         IN  /\ Apply(r)
             /\ twin' = IF twin.on THEN Twin(get_message_by_index(twin.st, index)) ELSE twin
             /\ last' = Call("get_message_by_index", index, FALSE, r.res)
    /\ run' = NoRun
    /\ UNCHANGED <<strategy, records, file, compressed, cache_messages, chunkVars,
                   multiVars>>

\* OSITrace.get_available_topics, forwarded to the reader
GetAvailableTopics ==
    /\ strategy = "flat"
    /\ LET r == get_available_topics(Self)
       IN  /\ Apply(r)
           /\ twin' = IF twin.on THEN Twin(get_available_topics(twin.st)) ELSE twin
           /\ last' = Call("get_available_topics", NoIndex, FALSE, r.res)
    /\ run' = NoRun
    /\ UNCHANGED <<strategy, records, file, compressed, cache_messages, chunkVars,
                   multiVars>>

\* OSITrace.get_file_metadata, forwarded to the reader
GetFileMetadata ==
    /\ strategy = "flat"
    /\ LET r == get_file_metadata(Self)
       IN  /\ Apply(r)
           /\ twin' = IF twin.on THEN Twin(get_file_metadata(twin.st)) ELSE twin
           /\ last' = Call("get_file_metadata", NoIndex, FALSE, r.res)
    /\ run' = NoRun
    /\ UNCHANGED <<strategy, records, file, compressed, cache_messages, chunkVars,
                   multiVars>>

\* OSITrace.get_channel_metadata, forwarded to the reader
GetChannelMetadata ==
    /\ strategy = "flat"
    /\ LET r == get_channel_metadata(Self)
       IN  /\ Apply(r)
           /\ twin' = IF twin.on THEN Twin(get_channel_metadata(twin.st)) ELSE twin
           /\ last' = Call("get_channel_metadata", NoIndex, FALSE, r.res)
    /\ run' = NoRun
    /\ UNCHANGED <<strategy, records, file, compressed, cache_messages, chunkVars,
                   multiVars>>

\* list(trace): __iter__ run until retrieve_message returns no message
RECURSIVE iterate(_)
iterate(s) ==
    LET r == retrieve_message(s, NoIndex, FALSE)
    IN  IF r.res.kind = "message" THEN <<r.res.msg>> \o iterate(r.st) ELSE <<>>

\* the reader as list(iter(self)) leaves it: the state after the call of
\* retrieve_message() that ended the loop
RECURSIVE iterated(_)
iterated(s) ==
    LET r == retrieve_message(s, NoIndex, FALSE)
    IN  IF r.res.kind = "message" THEN iterated(r.st) ELSE r.st

NextFlat ==
    \/ Iterate
    \/ RetrieveMessage
    \/ RetrieveOffsets
    \/ Restart
    \/ GetMessageByIndex

SpecFlat == InitFlat /\ [][NextFlat]_vars

(***************************************************************************)
(* retrieve_offsets and get_message_by_index, one action per step of the   *)
(* while loop of retrieve_offsets.  While a call is in the loop, last.res  *)
(* is InLoop and the client makes no other call on the reader.             *)
(***************************************************************************)
InLoop == Returned("while", <<>>, 0, <<>>)

\* retrieve_offsets up to its while loop
enter_offsets(s) ==
    IF ~s.read_complete
    THEN [s EXCEPT !.current_index = Len(s.message_offsets) - 1,
                   !.pos = seek(SeqLast(s.message_offsets))]
    ELSE s

\* get_message_by_index from the return of retrieve_offsets on
lookup_after_offsets(s, index) ==
    IF s.caching /\ InCache(s.message_cache, index)
    THEN Out(s, Message(CacheGet(s.message_cache, index)))
    ELSE retrieve_message(s, index, FALSE)

RetrieveOffsetsCall ==
    /\ strategy = "flat" /\ last.res # InLoop
    /\ \E limit \in Indices \cup {NoLimit} :
         /\ Apply(Out(enter_offsets(Self), InLoop))
         /\ last' = Call("retrieve_offsets", limit, FALSE, InLoop)
    /\ run' = NoRun
    /\ UNCHANGED <<strategy, records, file, compressed, cache_messages, twin,
                   chunkVars, multiVars>>

\* get_message_by_index up to the loop of retrieve_offsets(index), or to its
\* return when the table holds index and retrieve_offsets is not called
GetMessageByIndexCall ==
    /\ strategy = "flat" /\ last.res # InLoop
    /\ \E index \in Indices :
         \E r \in {IF index >= Len(message_offsets)
                   THEN Out(enter_offsets(Self), InLoop)
                   ELSE lookup_after_offsets(Self, index)} :
            /\ Apply(r)
            /\ last' = Call("get_message_by_index", index, FALSE, r.res)
    /\ run' = NoRun
    /\ UNCHANGED <<strategy, records, file, compressed, cache_messages, twin,
                   chunkVars, multiVars>>

\* one pass of the loop body, self.retrieve_message(skip=True); an exception
\* it raises ends the call
RetrieveOffsetsStep ==
    /\ strategy = "flat" /\ last.res = InLoop
    /\ more_offsets(Self, last.index)
    /\ \E r \in {retrieve_message(Self, NoIndex, TRUE)} :
         /\ Apply(r)
         /\ last' = IF Raised(r) THEN [last EXCEPT !.res = r.res] ELSE last
    /\ UNCHANGED <<strategy, records, file, compressed, cache_messages, run, twin,
                   chunkVars, multiVars>>

\* return self.message_offsets
RetrieveOffsetsReturn ==
    /\ strategy = "flat" /\ last.res = InLoop /\ last.op = "retrieve_offsets"
    /\ ~more_offsets(Self, last.index)
    /\ last' = [last EXCEPT !.res = Table(message_offsets)]
    /\ UNCHANGED <<strategy, records, file, compressed, cache_messages, singleVars,
                   run, twin, chunkVars, multiVars>>

GetMessageByIndexReturn ==
    /\ strategy = "flat" /\ last.res = InLoop /\ last.op = "get_message_by_index"
    /\ ~more_offsets(Self, last.index)
    /\ \E r \in {lookup_after_offsets(Self, last.index)} :
         /\ Apply(r)
         /\ last' = [last EXCEPT !.res = r.res]
    /\ UNCHANGED <<strategy, records, file, compressed, cache_messages, run, twin,
                   chunkVars, multiVars>>

NextLoop ==
    \/ last.res # InLoop /\ (Iterate \/ RetrieveMessage \/ Restart)
    \/ RetrieveOffsetsCall
    \/ GetMessageByIndexCall
    \/ RetrieveOffsetsStep
    \/ RetrieveOffsetsReturn
    \/ GetMessageByIndexReturn

SpecLoop == InitFlat /\ [][NextLoop]_vars

\* a call that has been made runs on: the interpreter takes the next step of
\* the loop, and the return, whenever there is one to take
SpecLoopFair ==
    /\ SpecLoop
    /\ WF_vars(RetrieveOffsetsStep)
    /\ WF_vars(RetrieveOffsetsReturn)
    /\ WF_vars(GetMessageByIndexReturn)

\* arguments a client passes to get_messages_in_index_range: a begin in or
\* just past the stream, an end not before it or None
Begins == 0..MaxRecords
Ends(begin) == (begin..MaxRecords) \cup {NoIndex}

\* list(trace.get_messages_in_index_range(begin, end))
GetMessagesInIndexRange ==
    /\ strategy = "flat"
    /\ \E begin \in Begins :
         \E end \in Ends(begin) :
           \E r \in {get_messages_in_index_range(Self, begin, end)} :
             /\ Apply(r)
             /\ twin' = IF twin.on
                        THEN Twin(get_messages_in_index_range(twin.st, begin, end))
                        ELSE twin
             /\ last' = [Call("get_messages_in_index_range", begin, FALSE, r.res)
                           EXCEPT !.end = end]
    /\ run' = NoRun
    /\ UNCHANGED <<strategy, records, file, compressed, cache_messages, chunkVars,
                   multiVars>>

\* list(trace.get_messages())
GetMessages ==
    /\ strategy = "flat"
    /\ \E r \in {get_messages(Self)} :
           /\ Apply(r)
           /\ twin' = IF twin.on THEN Twin(get_messages(twin.st)) ELSE twin
           /\ last' = Call("get_messages", 0, FALSE, r.res)
    /\ run' = NoRun
    /\ UNCHANGED <<strategy, records, file, compressed, cache_messages, chunkVars,
                   multiVars>>

\* the flat reader with its range generators
NextRange ==
    \/ NextFlat
    \/ GetMessagesInIndexRange
    \/ GetMessages

SpecRange == InitFlat /\ [][NextRange]_vars

\* the cached reader and its uncached twin under the same calls
NextTwin ==
    \/ Iterate
    \/ Restart
    \/ RetrieveOffsets
    \/ GetMessageByIndex
    \/ GetMessagesInIndexRange

SpecTwin == InitTwin /\ [][NextTwin]_vars

(***************************************************************************)
(* Chunked container, as IndexedSeekingReader sees it: the summary's chunk *)
(* indexes and, behind each chunk_start_offset, the records of the chunk   *)
(* in the order breakup_chunk yields them.  The containers of the model    *)
(* carry a summary with at least one chunk index; the branch for files     *)
(* without chunk indexes hands over to mcap's NonSeekingReader and is not  *)
(* part of the model.                                                      *)
(***************************************************************************)
Topics == {"a", "b"}
Times == 0..MaxTime

\* start_time=None, end_time=None
NoTime == -1
\* topics=None
NoTopics == {"None"}

\* a record of a chunk: a Message, or a record of another type (a Channel)
MessageRecord(topic, log_time, data) ==
    [type |-> "Message", topic |-> topic, log_time |-> log_time, data |-> data]
ChannelRecord(topic) ==
    [type |-> "Channel", topic |-> topic, log_time |-> 0, data |-> <<>>]
NoRecord == [type |-> "None", topic |-> "", log_time |-> 0, data |-> <<>>]

MinOf(S) == CHOOSE x \in S : \A y \in S : x <= y
MaxOf(S) == CHOOSE x \in S : \A y \in S : x >= y

MessagesOf(recs) == {recs[i] : i \in {j \in 1..Len(recs) : recs[j].type = "Message"}}

\* chunk k of a container: two messages, one per channel (odd chunks carry
\* "a" first, even chunks "b" first), the first chunk with the Channel
\* record a writer puts before them; its ChunkIndex holds the time range
\* of its messages
ChunkOf(k, t1, t2) ==
    LET first == IF k % 2 = 1 THEN "a" ELSE "b"
        second == IF k % 2 = 1 THEN "b" ELSE "a"
        recs == (IF k = 1 THEN <<ChannelRecord(first)>> ELSE <<>>)
                \o <<MessageRecord(first, t1, <<k, 1>>),
                     MessageRecord(second, t2, <<k, 2>>)>>
    IN  [chunk_start_offset |-> 100 * k,
         message_start_time |-> MinOf({t1, t2}),
         message_end_time |-> MaxOf({t1, t2}),
         records |-> recs]

Containers ==
    UNION {{[k \in 1..n |-> ChunkOf(k, ts[k][1], ts[k][2])] :
               ts \in [1..n -> Times \X Times]} : n \in 1..MaxChunks}

\* the chunk Chunk.read finds after seeking to chunk_offset + 1 + 8
ChunkAt(chunk_offset) ==
    chunks[CHOOSE k \in 1..Len(chunks) : chunks[k].chunk_start_offset = chunk_offset]

(***************************************************************************)
(* mcap's helpers, as the design document describes them.                  *)
(***************************************************************************)
\* _chunks_matching_topics: the chunk indexes whose time range meets
\* [start_time, end_time) and whose channels meet topics, in summary order
chunks_matching_topics(topics, start_time, end_time) ==
    SelectSeq(chunks,
        LAMBDA c :
            /\ start_time = NoTime \/ c.message_end_time >= start_time
            /\ end_time = NoTime \/ c.message_start_time < end_time
            /\ topics = NoTopics
                  \/ \E m \in MessagesOf(c.records) : m.topic \in topics)

\* MessageQueue: an item is a ChunkIndex or a (message, chunk offset,
\* index in chunk) tuple, with the log time and position it is ordered by
ChunkItem(c, reverse) ==
    [is_chunk |-> TRUE,
     log_time |-> IF reverse THEN c.message_end_time ELSE c.message_start_time,
     chunk_offset |-> c.chunk_start_offset, index_in_chunk |-> -1,
     record |-> NoRecord]
MessageItem(record, chunk_offset, index_in_chunk) ==
    [is_chunk |-> FALSE, log_time |-> record.log_time,
     chunk_offset |-> chunk_offset, index_in_chunk |-> index_in_chunk,
     record |-> record]

\* the order of the queue: log time, then chunk offset, then position
Before(x, y) ==
    \/ x.log_time < y.log_time
    \/ /\ x.log_time = y.log_time
       /\ \/ x.chunk_offset < y.chunk_offset
          \/ /\ x.chunk_offset = y.chunk_offset
             /\ x.index_in_chunk < y.index_in_chunk

\* MessageQueue.pop: the place in the queue of the item handed out; the
\* least item with log_time_order (the greatest with reverse), else the
\* oldest
pop_index(queue, log_time_order, reverse) ==
    IF ~log_time_order THEN 1
    ELSE IF reverse
    THEN CHOOSE k \in 1..Len(queue) :
             \A j \in 1..Len(queue) : j = k \/ Before(queue[j], queue[k])
    ELSE CHOOSE k \in 1..Len(queue) :
             \A j \in 1..Len(queue) : j = k \/ Before(queue[k], queue[j])

Without(queue, k) == SubSeq(queue, 1, k - 1) \o SubSeq(queue, k + 1, Len(queue))

(***************************************************************************)
(* IndexedSeekingReader.iter_messages: a generator.                        *)
(***************************************************************************)
Gens == 1..MaxGens

\* the generator object: its arguments and its local variables; pc is
\* "created" until the first next(), "suspended" at the yield, then "done".
\* out lists what it has yielded; lone says that since its first next() no
\* other iteration has touched self._index_map
Generator(topics, start_time, end_time, log_time_order, reverse) ==
    [pc |-> "created", topics |-> topics, start_time |-> start_time,
     end_time |-> end_time, log_time_order |-> log_time_order,
     reverse |-> reverse, queue |-> <<>>, global_idx |-> 0, out |-> <<>>,
     lone |-> FALSE]

NoGenerator ==
    [Generator(NoTopics, NoTime, NoTime, TRUE, FALSE) EXCEPT !.pc = "none"]

\* faulty variant of chunk_messages: the topics filter is not applied
chunk_messages_any_topic(g, c) ==
    LET items == [i \in 1..Len(c.records) |->
                     MessageItem(c.records[i], c.chunk_start_offset, i - 1)]
    IN  SelectSeq(items,
            LAMBDA it :
                /\ it.record.type = "Message"
                /\ g.start_time = NoTime \/ it.record.log_time >= g.start_time
                /\ g.end_time = NoTime \/ it.record.log_time < g.end_time)

\* the for loop over breakup_chunk(chunk): the messages that pass the
\* filters, each with its place in the enumeration of all records
chunk_messages(g, c) ==
    LET items == [i \in 1..Len(c.records) |->
                     MessageItem(c.records[i], c.chunk_start_offset, i - 1)]
    IN  SelectSeq(items,
            LAMBDA it :
                /\ it.record.type = "Message"
                /\ g.topics = NoTopics \/ it.record.topic \in g.topics
                /\ g.start_time = NoTime \/ it.record.log_time >= g.start_time
                /\ g.end_time = NoTime \/ it.record.log_time < g.end_time)

\* what the generator yields: (schema, channel, record, global_idx)
Yielded(item, global_idx) ==
    [record |-> item.record, chunk_offset |-> item.chunk_offset,
     index_in_chunk |-> item.index_in_chunk, global_idx |-> global_idx]

\* faulty variant of merge_loop: the queue is read in arrival order whatever
\* log_time_order says
RECURSIVE merge_loop_arrival_order(_, _)
merge_loop_arrival_order(g, im) ==
    IF g.queue = <<>>
    THEN [gen |-> [g EXCEPT !.pc = "done"], index_map |-> im]
    ELSE LET next_item == g.queue[1]
             rest == Without(g.queue, 1)
         IN  IF next_item.is_chunk
             THEN merge_loop_arrival_order(
                      [g EXCEPT !.queue =
                          rest \o chunk_messages(g, ChunkAt(next_item.chunk_offset))],
                      im)
             ELSE [gen |-> [g EXCEPT !.queue = rest,
                                     !.pc = "suspended",
                                     !.out = Append(@, Yielded(next_item, g.global_idx)),
                                     !.global_idx = @ + 1],
                   index_map |-> Append(im, <<next_item.chunk_offset,
                                              next_item.index_in_chunk>>)]

\* "while message_queue:" up to the next yield or the end of the generator
RECURSIVE merge_loop(_, _)
merge_loop(g, im) ==
    IF g.queue = <<>>
    THEN [gen |-> [g EXCEPT !.pc = "done"], index_map |-> im]
    ELSE LET k == pop_index(g.queue, g.log_time_order, g.reverse)
             next_item == g.queue[k]
             rest == Without(g.queue, k)
         IN  IF next_item.is_chunk
             THEN merge_loop(
                      [g EXCEPT !.queue =
                          rest \o chunk_messages(g, ChunkAt(next_item.chunk_offset))],
                      im)
             ELSE [gen |-> [g EXCEPT !.queue = rest,
                                     !.pc = "suspended",
                                     !.out = Append(@, Yielded(next_item, g.global_idx)),
                                     !.global_idx = @ + 1],
                   index_map |-> Append(im, <<next_item.chunk_offset,
                                              next_item.index_in_chunk>>)]

\* faulty variant of first_next: self._index_map is not cleared
first_next_no_clear(g, im) ==
    LET selected == chunks_matching_topics(g.topics, g.start_time, g.end_time)
        queue == [i \in 1..Len(selected) |-> ChunkItem(selected[i], g.reverse)]
    IN  merge_loop([g EXCEPT !.queue = queue, !.global_idx = 0], im)

\* the generator's first next(): clear the index, queue the chunk indexes
first_next(g, im) ==
    LET selected == chunks_matching_topics(g.topics, g.start_time, g.end_time)
        queue == [i \in 1..Len(selected) |-> ChunkItem(selected[i], g.reverse)]
    IN  merge_loop([g EXCEPT !.queue = queue, !.global_idx = 0], <<>>)

\* next(generator)
next(g, im) ==
    IF g.pc = "created" THEN first_next(g, im)
    ELSE IF g.pc = "suspended" THEN merge_loop(g, im)
    ELSE [gen |-> g, index_map |-> im]

\* list(reader.iter_messages(...)): the generator run to its end
RECURSIVE exhaust(_, _)
exhaust(g, im) ==
    LET r == next(g, im)
    IN  IF r.gen.pc = "done" THEN r ELSE exhaust(r.gen, r.index_map)

(***************************************************************************)
(* IndexedSeekingReader.get.                                               *)
(***************************************************************************)
\* the decoder of a channel applied to message.data
decoder(data) == [decoded |-> data]

Found(record) ==
    [kind |-> "message", record |-> record, decoded |-> decoder(record.data)]
NotFound == [kind |-> "IndexError", record |-> NoRecord, decoded |-> decoder(<<>>)]
NoCall == [kind |-> "None", record |-> NoRecord, decoded |-> decoder(<<>>)]
DecoderNotFoundError ==
    [kind |-> "DecoderNotFoundError", record |-> NoRecord, decoded |-> decoder(<<>>)]

\* what decoded_message does with the decoders: those stored after it,
\* whether a factory was asked and returned one, what get returns or raises
Resolution(stored, resolved, res) ==
    [decoders |-> stored, resolved |-> resolved, res |-> res]

\* faulty variant of decoded_message: the decoder a factory returns is used
\* and not stored
decoded_message_not_stored(found) ==
    LET channel == found.record.topic
    IN  IF channel \in decoders THEN Resolution(decoders, FALSE, found)
        ELSE IF channel \in factories THEN Resolution(decoders, TRUE, found)
        ELSE Resolution(decoders, FALSE, DecoderNotFoundError)

\* decoded_message: the decoder stored for the channel, else the first one
\* a factory returns, which is stored, else DecoderNotFoundError
decoded_message(found) ==
    LET channel == found.record.topic
    IN  IF channel \in decoders THEN Resolution(decoders, FALSE, found)
        ELSE IF channel \in factories
        THEN Resolution(decoders \cup {channel}, TRUE, found)
        ELSE Resolution(decoders, FALSE, DecoderNotFoundError)

\* for _, _, _, idx in self.iter_messages(): if idx >= global_index: break
RECURSIVE build_index(_, _, _)
build_index(g, im, global_index) ==
    LET r == next(g, im)
    IN  IF r.gen.pc = "done" THEN r.index_map
        ELSE IF r.gen.out[Len(r.gen.out)].global_idx >= global_index
        THEN r.index_map
        ELSE build_index(r.gen, r.index_map, global_index)

\* faulty variant of seek_record: idx_in_chunk counts the Message records
\* of the chunk only
seek_record_counts_messages(chunk_offset, idx_in_chunk) ==
    LET recs == SelectSeq(ChunkAt(chunk_offset).records,
                          LAMBDA r : r.type = "Message")
    IN  IF idx_in_chunk + 1 \in 1..Len(recs)
        THEN Found(recs[idx_in_chunk + 1])
        ELSE NotFound

\* the seeking path: the record at idx_in_chunk of the chunk, if a Message
seek_record(chunk_offset, idx_in_chunk) ==
    LET recs == ChunkAt(chunk_offset).records
    IN  IF idx_in_chunk + 1 \in 1..Len(recs) /\ recs[idx_in_chunk + 1].type = "Message"
        THEN Found(recs[idx_in_chunk + 1])
        ELSE NotFound

\* def get(self, global_index)
get(im, global_index) ==
    LET im1 == IF global_index >= Len(im)
               THEN build_index(Generator(NoTopics, NoTime, NoTime, TRUE, FALSE),
                                im, global_index)
               ELSE im
        found == seek_record(im1[global_index + 1][1], im1[global_index + 1][2])
        missed == [index_map |-> im1, res |-> NotFound, decoders |-> decoders,
                   resolved |-> FALSE]
    IN  IF global_index < 0 \/ global_index >= Len(im1) THEN missed
        ELSE IF found.kind # "message" THEN missed
        ELSE [index_map |-> im1, res |-> decoded_message(found).res,
              decoders |-> decoded_message(found).decoders,
              resolved |-> decoded_message(found).resolved]

(***************************************************************************)
(* Chunked reader: construction and the calls a client makes.              *)
(***************************************************************************)
\* arguments a client passes to iter_messages
TopicFilters == {NoTopics, {"a"}}
TimeRanges == {<<NoTime, NoTime>>, <<1, 2>>}
Orders == {<<TRUE, FALSE>>, <<TRUE, TRUE>>, <<FALSE, FALSE>>}

\* messages of the container, the most get can be asked for and one more
GlobalIndices == 0..(2 * MaxChunks)

NoGet == [index |-> 0, cold |-> FALSE, res |-> NoCall, resolved |-> FALSE]

\* IndexedSeekingReader.__init__ on a container, but for the generators the
\* client will hold and the decoder factories it passes
InitContainer ==
    /\ strategy = "chunked"
    /\ chunks \in Containers
    /\ index_map = <<>>
    /\ got = NoGet
    /\ records = <<>>
    /\ file = <<>>
    /\ compressed = FALSE
    /\ cache_messages = FALSE
    /\ pos = 0
    /\ current_index = 0
    /\ message_offsets = <<>>
    /\ read_complete = FALSE
    /\ message_cache = {}
    /\ last = [op |-> "__init__", index |-> NoIndex, skip |-> FALSE,
               res |-> None, end |-> NoIndex, cold |-> FALSE, done |-> FALSE, plain |-> TRUE]
    /\ run = NoRun
    /\ twin = NoTwin
    /\ self_topic = ""
    /\ iter = 0
    /\ iters = <<>>
    /\ loops = <<>>

\* the reader opened with a decoder factory for every channel
InitChunked ==
    /\ InitContainer
    /\ gens = [g \in Gens |-> NoGenerator]
    /\ decoders = {}
    /\ factories = Topics

\* the other generators, once an iteration has touched the index
Disturbed(gs, g) ==
    [h \in DOMAIN gs |-> IF h = g THEN gs[h] ELSE [gs[h] EXCEPT !.lone = FALSE]]

\* reader.iter_messages(...): the generator object is made, nothing runs
IterMessages ==
    /\ strategy = "chunked"
    /\ \E g \in DOMAIN gens, topics \in TopicFilters, range \in TimeRanges,
          order \in Orders :
         gens' = [gens EXCEPT ![g] =
                     Generator(topics, range[1], range[2], order[1], order[2])]
    /\ got' = NoGet
    /\ UNCHANGED <<strategy, flatVars, multiVars, chunks, index_map, decoders,
                   factories>>

\* next() on a generator: runs it to its next yield, or to its end
GeneratorNext ==
    /\ strategy = "chunked"
    /\ \E g \in DOMAIN gens :
         /\ gens[g].pc \in {"created", "suspended"}
         /\ LET r == next(gens[g], index_map)
                started == gens[g].pc = "created"
                touched == started \/ r.index_map # index_map
                mine == [r.gen EXCEPT !.lone = IF started THEN TRUE ELSE @]
            IN  /\ index_map' = r.index_map
                /\ gens' = IF touched
                           THEN Disturbed([gens EXCEPT ![g] = mine], g)
                           ELSE [gens EXCEPT ![g] = mine]
    /\ got' = NoGet
    /\ UNCHANGED <<strategy, flatVars, multiVars, chunks, decoders, factories>>

\* reader.get(global_index)
Get ==
    /\ strategy = "chunked"
    /\ \E global_index \in GlobalIndices :
         LET r == get(index_map, global_index)
             cold == global_index >= Len(index_map)
         IN  /\ index_map' = r.index_map
             /\ got' = [index |-> global_index, cold |-> cold, res |-> r.res,
                         resolved |-> r.resolved]
             /\ decoders' = r.decoders
             /\ gens' = IF cold
                        THEN [h \in DOMAIN gens |-> [gens[h] EXCEPT !.lone = FALSE]]
                        ELSE gens
    /\ UNCHANGED <<strategy, flatVars, multiVars, chunks, factories>>

NextChunked ==
    \/ IterMessages
    \/ GeneratorNext
    \/ Get

SpecChunked == InitChunked /\ [][NextChunked]_vars

\* the generators of a client that keeps one more of them at a time, and
\* asks for all messages in log-time order
Sessions == 1..(MaxGens + 1)

InitSessions ==
    /\ InitContainer
    /\ gens = [g \in Sessions |-> NoGenerator]
    /\ decoders = {}
    /\ factories = Topics

\* reader.iter_messages(): every argument at its default
IterAllMessages ==
    /\ strategy = "chunked"
    /\ \E g \in DOMAIN gens :
         gens' = [gens EXCEPT ![g] = Generator(NoTopics, NoTime, NoTime, TRUE, FALSE)]
    /\ got' = NoGet
    /\ UNCHANGED <<strategy, flatVars, multiVars, chunks, index_map, decoders,
                   factories>>

NextSessions ==
    \/ IterAllMessages
    \/ GeneratorNext

SpecSessions == InitSessions /\ [][NextSessions]_vars

\* the reader opened with any decoder factories, none included
InitDecoders ==
    /\ InitContainer
    /\ gens = [g \in Gens |-> NoGenerator]
    /\ decoders = {}
    /\ factories \in SUBSET Topics

NextDecoders ==
    \/ IterAllMessages
    \/ GeneratorNext
    \/ Get

SpecDecoders == InitDecoders /\ [][NextDecoders]_vars

(***************************************************************************)
(* _OSITraceMulti behind the facade OSITrace: one topic of a container,    *)
(* read through the reader mcap's make_reader returns.                     *)
(***************************************************************************)
\* self._mcap_reader.iter_messages(topics=[self.topic]), as the design document
\* describes the merge: the data of the topic's messages in log time order
mcap_iter_messages(t) ==
    LET out == exhaust(Generator({t}, NoTime, NoTime, TRUE, FALSE), <<>>).gen.out
    IN  [k \in 1..Len(out) |-> out[k].record.data]

Loops == 1..MaxGens

\* the generator object of __iter__: pc as for Generator; it is the
\* iterator its for loop runs over (0 before the loop is entered); out
\* lists what it has yielded
Loop == [pc |-> "created", it |-> 0, out |-> <<>>]
NoLoop == [pc |-> "none", it |-> 0, out |-> <<>>]

\* the reader's part of a step: self._iter and the iterators
Multi(it, its, res) == [iter |-> it, iters |-> its, res |-> res]

\* faulty variant of multi_restart: "if index:" for "if index != None:"
multi_restart_if_index(index) ==
    IF index # NoIndex /\ index # 0
    THEN Multi(iter, iters, NotImplementedError)
    ELSE Multi(0, iters, None)

\* _OSITraceMulti.restart
multi_restart(index) ==
    IF index # NoIndex
    THEN Multi(iter, iters, NotImplementedError)
    ELSE Multi(0, iters, None)

\* "for _, _, message in self._iter:" one round of the loop of generator l
\* over iterator it: the next message decoded and yielded, or the end
multi_loop(l, it, its) ==
    LET messages == mcap_iter_messages(self_topic)
        handed == its[it]
    IN  IF handed < Len(messages)
        THEN [loop |-> [l EXCEPT !.pc = "suspended", !.it = it,
                                 !.out = Append(@, ParseFromString(messages[handed + 1]))],
              iter |-> iter,
              iters |-> [its EXCEPT ![it] = handed + 1]]
        ELSE [loop |-> [l EXCEPT !.pc = "done", !.it = it],
              iter |-> iter, iters |-> its]

\* faulty variant of multi_next: every new loop asks the reader for a new
\* iterator, whether or not self._iter is None
multi_next_new_iterator(l) ==
    IF l.pc = "created"
    THEN [multi_loop(l, Len(iters) + 1, Append(iters, 0))
             EXCEPT !.iter = Len(iters) + 1]
    ELSE multi_loop(l, l.it, iters)

\* next() on the generator of _OSITraceMulti.__iter__
multi_next(l) ==
    IF l.pc = "created"
    THEN IF iter = 0
         THEN [multi_loop(l, Len(iters) + 1, Append(iters, 0))
                  EXCEPT !.iter = Len(iters) + 1]
         ELSE multi_loop(l, iter, iters)
    ELSE multi_loop(l, l.it, iters)

\* the for loop of __iter__ run until its iterator ends: what it yields
RECURSIVE multi_rounds(_, _)
multi_rounds(l, its) ==
    LET r == multi_loop(l, l.it, its)
    IN  IF r.loop.pc = "done" THEN r.loop.out ELSE multi_rounds(r.loop, r.iters)

\* list(trace) on a multi-channel trace
multi_list ==
    LET r == multi_next(Loop)
    IN  IF r.loop.pc = "done" THEN r.loop.out ELSE multi_rounds(r.loop, r.iters)

\* the OSITrace methods that ask isinstance(self.reader, _OSITraceSingle)
\* before they forward: on another reader they raise
legacy_on_multi == Multi(iter, iters, NotImplementedError)

\* _OSITraceMulti.__init__: the topic asked for, one of the container's
InitMulti ==
    /\ strategy = "multi"
    /\ chunks \in Containers
    /\ self_topic \in Topics
    /\ iter = 0
    /\ iters = <<>>
    /\ loops = [l \in Loops |-> NoLoop]
    /\ index_map = <<>>
    /\ gens = <<>>
    /\ got = <<>>
    /\ decoders = {}
    /\ factories = {}
    /\ records = <<>>
    /\ file = <<>>
    /\ compressed = FALSE
    /\ cache_messages = FALSE
    /\ pos = 0
    /\ current_index = 0
    /\ message_offsets = <<>>
    /\ read_complete = FALSE
    /\ message_cache = {}
    /\ last = [op |-> "__init__", index |-> NoIndex, skip |-> FALSE,
               res |-> None, end |-> NoIndex, cold |-> FALSE, done |-> FALSE, plain |-> TRUE]
    /\ run = NoRun
    /\ twin = NoTwin

\* arguments a client passes to the legacy accessors
LegacyIndices == {0, MaxRecords}

\* what a call on the multi-channel trace leaves alone
multiFrame == <<strategy, records, file, compressed, cache_messages, singleVars,
                run, twin, chunkVars, self_topic>>

\* iter(trace): the generator object is made, nothing runs
MultiIter ==
    /\ strategy = "multi"
    /\ \E l \in Loops : loops' = [loops EXCEPT ![l] = Loop]
    /\ last' = Call("iter", NoIndex, FALSE, None)
    /\ UNCHANGED <<multiFrame, iter, iters>>

\* next() on a generator of __iter__: one more message, or the end
MultiNext ==
    /\ strategy = "multi"
    /\ \E l \in Loops :
         /\ loops[l].pc \in {"created", "suspended"}
         /\ (loops[l].pc = "created" /\ iter = 0) => Len(iters) < MaxIters
         /\ LET r == multi_next(loops[l])
            IN  /\ loops' = [loops EXCEPT ![l] = r.loop]
                /\ iter' = r.iter
                /\ iters' = r.iters
                /\ last' = Call("__iter__", NoIndex, FALSE,
                                IF r.loop.pc = "done" THEN None
                                ELSE Message(SeqLast(r.loop.out)))
    /\ UNCHANGED multiFrame

\* OSITrace.restart, forwarded to the reader
MultiRestart ==
    /\ strategy = "multi"
    /\ \E index \in Indices \cup {NoIndex} :
         LET r == multi_restart(index)
         IN  /\ iter' = r.iter
             /\ iters' = r.iters
             /\ last' = Call("restart", index, FALSE, r.res)
    /\ UNCHANGED <<multiFrame, loops>>

\* OSITrace.retrieve_offsets on a multi-channel trace
MultiRetrieveOffsets ==
    /\ strategy = "multi"
    /\ \E limit \in LegacyIndices \cup {NoLimit} :
         LET r == legacy_on_multi
         IN  /\ iter' = r.iter
             /\ iters' = r.iters
             /\ last' = Call("retrieve_offsets", limit, FALSE, r.res)
    /\ UNCHANGED <<multiFrame, loops>>

\* OSITrace.retrieve_message on a multi-channel trace
MultiRetrieveMessage ==
    /\ strategy = "multi"
    /\ \E index \in LegacyIndices \cup {NoIndex}, skip \in BOOLEAN :
         LET r == legacy_on_multi
         IN  /\ iter' = r.iter
             /\ iters' = r.iters
             /\ last' = Call("retrieve_message", index, skip, r.res)
    /\ UNCHANGED <<multiFrame, loops>>

\* OSITrace.get_message_by_index on a multi-channel trace
MultiGetMessageByIndex ==
    /\ strategy = "multi"
    /\ \E index \in LegacyIndices :
         LET r == legacy_on_multi
         IN  /\ iter' = r.iter
             /\ iters' = r.iters
             /\ last' = Call("get_message_by_index", index, FALSE, r.res)
    /\ UNCHANGED <<multiFrame, loops>>

\* OSITrace.get_messages_in_index_range on a multi-channel trace
MultiGetMessagesInIndexRange ==
    /\ strategy = "multi"
    /\ \E begin \in LegacyIndices :
         LET r == legacy_on_multi
         IN  /\ iter' = r.iter
             /\ iters' = r.iters
             /\ last' = Call("get_messages_in_index_range", begin, FALSE, r.res)
    /\ UNCHANGED <<multiFrame, loops>>

NextMulti ==
    \/ MultiIter
    \/ MultiNext
    \/ MultiRestart
    \/ MultiRetrieveOffsets
    \/ MultiRetrieveMessage
    \/ MultiGetMessageByIndex
    \/ MultiGetMessagesInIndexRange

SpecMulti == InitMulti /\ [][NextMulti]_vars

(***************************************************************************)
(* The facade: a trace is read by the flat reader or by _OSITraceMulti.    *)
(***************************************************************************)
InitFacade == InitFlat \/ InitMulti

\* the metadata queries, on a single-channel trace
NextMetadata ==
    \/ GetAvailableTopics
    \/ GetFileMetadata
    \/ GetChannelMetadata

NextFacade == NextFlat \/ NextMetadata \/ NextMulti

SpecFacade == InitFacade /\ [][NextFacade]_vars

(***************************************************************************)
(* Both indexed readers: a trace is read by one or the other.              *)
(***************************************************************************)
Init == InitFlat \/ InitChunked

Next == NextFlat \/ NextChunked

Spec == Init /\ [][Next]_vars

(***************************************************************************)
(* Flat reader: what the stream holds, for the statements below.           *)
(***************************************************************************)
\* number of complete records
N == Len(records)

\* the stream ends at a record boundary
Valid == file = Concat(records)

\* the decoded records, in stream order
Decoded == [i \in 1..N |-> ParseFromString(records[i])]

\* Starts[i+1] is the byte offset at which record i starts; Starts[N+1] is
\* the end of the last complete record
Starts == [i \in 1..(N + 1) |-> Len(Concat(SubSeq(records, 1, i - 1)))]

IsPrefix(a, b) == Len(a) <= Len(b) /\ a = SubSeq(b, 1, Len(a))

(***************************************************************************)
(* C1. On a valid stream of N records, get_message_by_index(i) with i < N  *)
(* returns the record that sequential iteration of a fresh reader produces *)
(* as its i-th, whatever calls came before and with caching on or off.     *)
(***************************************************************************)
C1_LookupIsIthOfIteration ==
    (strategy = "flat" /\ Valid /\ last.op = "get_message_by_index"
       /\ last.index < N)
    => /\ Len(iterate(Fresh)) = N
       /\ last.res = Message(iterate(Fresh)[last.index + 1])

\* a lookup of record 1 of two after the stream was read to its end, the cache on
C1_Witness ==
    /\ strategy = "flat" /\ Valid /\ N = 2 /\ records[1] # records[2]
    /\ cache_messages /\ read_complete
    /\ last.op = "get_message_by_index" /\ last.index = 1
    /\ last.res.kind = "message"

(***************************************************************************)
(* C2. As claimed: on a valid stream of N records, retrieve_offsets() with *)
(* no limit returns a table of exactly N+1 entries (the record starts and  *)
(* an end-of-stream sentinel).                                             *)
(***************************************************************************)
C2_Claimed_TableHasSentinel ==
    (strategy = "flat" /\ Valid /\ last.op = "retrieve_offsets"
       /\ last.index = NoLimit /\ last.res.kind = "table")
    => Len(last.res.tab) = N + 1

(***************************************************************************)
(* C2, amended.  On a valid stream of N records, retrieve_offsets() with   *)
(* no limit, called before the end of the stream has been detected,        *)
(* raises nothing and returns exactly N entries, entry i the start of      *)
(* record i: the sentinel is popped when the end is detected.  Called      *)
(* later it returns the table as it stands, of N or N+1 entries whose      *)
(* first N are the record starts.                                          *)
(***************************************************************************)
C2_TableOfRecordStarts ==
    (strategy = "flat" /\ Valid /\ last.op = "retrieve_offsets"
       /\ last.index = NoLimit)
    => /\ last.res.kind = "table"
       /\ last.res.tab = message_offsets
       /\ IsPrefix(last.res.tab, Starts)
       /\ Len(last.res.tab) >= N
       /\ ~last.done => Len(last.res.tab) = N

\* retrieve_offsets() on a reader that had read one of two records
C2_Witness ==
    /\ strategy = "flat" /\ Valid /\ N = 2
    /\ last.op = "retrieve_offsets" /\ last.index = NoLimit /\ ~last.done
    /\ last.res.tab = <<Starts[1], Starts[2]>>
    /\ read_complete

(***************************************************************************)
(* C3. On a valid stream of N records, once the stream has been read to    *)
(* its end (read_complete), retrieve_offsets() returns exactly N entries,  *)
(* entry i the start of record i, and no trailing sentinel.                *)
(***************************************************************************)
C3_OneOffsetPerMessage ==
    (strategy = "flat" /\ Valid /\ last.op = "retrieve_offsets"
       /\ last.res.kind = "table" /\ read_complete)
    => last.res.tab = SubSeq(Starts, 1, N)

(***************************************************************************)
(* C6. On a stream of k complete records followed by a truncated one,      *)
(* iteration from the start yields exactly the k records, in order, then   *)
(* ends with None; it raises nothing and yields no partial record.         *)
(***************************************************************************)
C6_TruncatedTailEndsIteration ==
    (strategy = "flat" /\ ~Valid /\ run.pure /\ run.from = 0)
    => /\ IsPrefix(run.out, Decoded)
       /\ run.ended # "IndexError"
       /\ run.ended = "None" => run.out = Decoded
       /\ (run.ended = "no" /\ Len(run.out) = N)
             => retrieve_message(Self, NoIndex, FALSE).res = None

\* two records and a truncated third, iterated to the end
C6_Witness ==
    /\ strategy = "flat" /\ ~Valid /\ N = 2
    /\ run.pure /\ run.from = 0 /\ run.ended = "None" /\ Len(run.out) = 2
    /\ last.op = "__iter__"

(***************************************************************************)
(* C9. restart(i) with i in the offset table, followed by iteration,       *)
(* yields exactly records i..N-1 in order, with the cache on or off and    *)
(* whatever was read before; restart() with no index succeeds and the      *)
(* iteration after it yields the whole stream.                             *)
(***************************************************************************)
C9_RestartThenSuffix ==
    strategy = "flat" =>
      /\ (last.op = "restart" /\ (last.index = NoIndex \/ ~last.cold))
            => last.res = None
      /\ run.pure =>
            /\ IsPrefix(run.out, SubSeq(Decoded, run.from + 1, N))
            /\ run.ended # "IndexError"
            /\ run.ended = "None" => run.out = SubSeq(Decoded, run.from + 1, N)

(***************************************************************************)
(* C10. Once retrieve_message() has returned None, a further               *)
(* retrieve_message() with no restart in between returns None again,       *)
(* raises nothing and leaves the offset table, read_complete,              *)
(* current_index and the stream position as they were; on every stream,    *)
(* the empty one and one whose first record is truncated included.         *)
(***************************************************************************)
C10_EndOfStreamIsIdempotent ==
    (strategy = "flat" /\ last.op \in {"__iter__", "retrieve_message"}
       /\ last.index = NoIndex /\ ~last.skip /\ last.res = None)
    => LET r == retrieve_message(Self, NoIndex, FALSE)
       IN  r.res = None /\ r.st = Self

(***************************************************************************)
(* C11. On a stream that ends in a truncated record, whatever calls were   *)
(* made, no entry of the offset table is greater than the end offset of    *)
(* the last complete record.                                               *)
(***************************************************************************)
C11_TableStopsAtLastCompleteRecord ==
    (strategy = "flat" /\ ~Valid)
    => \A i \in 1..Len(message_offsets) : message_offsets[i] <= Starts[N + 1]

(***************************************************************************)
(* C12. On a stream of k complete records followed by a truncated one, a   *)
(* client that only iterates from the start and calls retrieve_offsets(),  *)
(* in any order, gets exactly the k records from the iteration and a       *)
(* table of k+1 entries from retrieve_offsets().                           *)
(***************************************************************************)
C12_TruncatedStreamTableHasSentinel ==
    (strategy = "flat" /\ ~Valid /\ last.plain)
    => /\ (run.pure /\ run.from = 0 /\ run.ended # "no") =>
             (run.ended = "None" /\ run.out = Decoded)
       /\ last.op = "retrieve_offsets" =>
             (last.res.kind = "table" /\ Len(last.res.tab) = N + 1)

\* the offset a read starting at offset start moves forward to, when the
\* length prefix at start is whole
ForwardFrom(start) ==
    start + header_length + unpack(read(start, header_length))

(***************************************************************************)
(* C13. In every reachable state the offset table is strictly increasing,  *)
(* and every entry but the first is where a read that started at the       *)
(* entry before it (the last entry at that time) moved forward to.         *)
(***************************************************************************)
C13_TableStrictlyIncreasing ==
    strategy = "flat" =>
      \A i \in 2..Len(message_offsets) :
         /\ message_offsets[i - 1] < message_offsets[i]
         /\ Len(read(message_offsets[i - 1], header_length)) = header_length
         /\ message_offsets[i] = ForwardFrom(message_offsets[i - 1])

\* a table of three entries built by skip-mode and decoding reads
C13_Witness ==
    /\ strategy = "flat" /\ N = 2 /\ Len(message_offsets) = 3
    /\ last.op = "retrieve_message" /\ last.skip /\ last.res.kind = "offset"
    /\ message_offsets = Starts

\* where the read of retrieve_message(index, ...) starts, in the state the
\* call is made in
StartOfRead(index) ==
    IF index # NoIndex /\ index < Len(message_offsets)
    THEN seek(message_offsets[index + 1])
    ELSE pos

\* the read of retrieve_message(index, ...) starts somewhere else than at
\* the last entry of the offset table
StartsElsewhere(index) ==
    \/ message_offsets = <<>>
    \/ StartOfRead(index) # SeqLast(message_offsets)

(***************************************************************************)
(* C14. A retrieve_message call, decoding or skipping, successful or at    *)
(* the end of the stream, whose read starts at a position other than the   *)
(* last entry of the offset table leaves the offset table, the cache and   *)
(* read_complete exactly as they were.                                     *)
(***************************************************************************)
C14_ReadElsewhereKeepsTableAndCache ==
    [][(/\ strategy = "flat"
        /\ last'.op \in {"__iter__", "retrieve_message"}
        /\ StartsElsewhere(last'.index))
       => UNCHANGED <<message_offsets, message_cache, read_complete>>]_vars

\* a decoding read of record 0 by index while the table had three entries,
\* the cache on and not holding record 0
C14_Witness ==
    /\ strategy = "flat" /\ cache_messages /\ N = 2
    /\ last.op = "retrieve_message" /\ last.index = 0 /\ ~last.skip
    /\ last.res.kind = "message"
    /\ Len(message_offsets) = 3 /\ ~InCache(message_cache, 0)

(***************************************************************************)
(* C15. As claimed: with the cache on, a read directed to a position by an *)
(* explicit index (retrieve_message(index=i), get_message_by_index(i))     *)
(* never adds an entry to the message cache.                               *)
(***************************************************************************)
C15_Claimed_IndexedReadNeverCaches ==
    [][(/\ strategy = "flat" /\ cache_messages
        /\ last'.op \in {"retrieve_message", "get_message_by_index"}
        /\ last'.index # NoIndex)
       => message_cache' = message_cache]_vars

(***************************************************************************)
(* C15, amended.  With the cache on, a call adds at most one entry to the  *)
(* message cache and never changes one: the entry is record k under key k, *)
(* where k was the last entry of the offset table when the decoding read   *)
(* started, so that the same read extended the table.  A read directed by  *)
(* an explicit index i adds it exactly when i is that k (index access to   *)
(* the natural next position, as the cold get_message_by_index(i) makes    *)
(* after retrieve_offsets(i)); skip-mode reads add nothing.                *)
(***************************************************************************)
C15_CacheOnlyAtTableEnd ==
    [][(strategy = "flat" /\ cache_messages /\ message_cache' # message_cache)
       => LET k == Len(message_offsets') - 2
          IN  /\ ~last'.skip /\ last'.op # "retrieve_offsets"
              /\ k \in 0..(N - 1)
              /\ ~InCache(message_cache, k)
              /\ message_cache' = message_cache \cup {<<k, Decoded[k + 1]>>}
              /\ last'.res = Message(Decoded[k + 1])
              /\ last'.index # NoIndex => last'.index = k]_vars

\* a cold lookup of record 1 that left record 1 in the cache
C15_Witness ==
    /\ strategy = "flat" /\ cache_messages /\ N = 2
    /\ last.op = "get_message_by_index" /\ last.index = 1 /\ last.cold
    /\ last.res.kind = "message" /\ InCache(message_cache, 1)
    /\ ~InCache(message_cache, 0)

(***************************************************************************)
(* Chunked reader: what the container holds, for the statements below.     *)
(***************************************************************************)
\* number of messages in the container
RECURSIVE CountMessages(_)
CountMessages(cs) ==
    IF cs = <<>> THEN 0
    ELSE Len(SelectSeq(Head(cs).records, LAMBDA r : r.type = "Message"))
         + CountMessages(Tail(cs))

TotalMessages == CountMessages(chunks)

\* every chunk index gives the least and greatest log time of its messages
SummaryBoundsTimes ==
    \A k \in 1..Len(chunks) : \A m \in MessagesOf(chunks[k].records) :
        chunks[k].message_start_time <= m.log_time
        /\ m.log_time <= chunks[k].message_end_time

\* (timestamp, chunk offset, in-chunk position) of x is below that of y
EmittedBefore(x, y) ==
    \/ x.record.log_time < y.record.log_time
    \/ /\ x.record.log_time = y.record.log_time
       /\ \/ x.chunk_offset < y.chunk_offset
          \/ /\ x.chunk_offset = y.chunk_offset
             /\ x.index_in_chunk < y.index_in_chunk

(***************************************************************************)
(* C4. With log_time_order and without reverse, on a summary whose chunk   *)
(* time ranges bound the log times of their messages, what iter_messages   *)
(* emits is sorted by (timestamp, chunk offset, in-chunk position): log    *)
(* times never decrease, across chunks either, and equal log times come    *)
(* out by (chunk offset, position); the global indices follow that order.  *)
(***************************************************************************)
C4_EmittedInMergedTimeOrder ==
    strategy = "chunked" =>
      \A g \in Gens :
        (gens[g].log_time_order /\ ~gens[g].reverse /\ SummaryBoundsTimes)
        => \A i, j \in 1..Len(gens[g].out) :
              i < j => /\ EmittedBefore(gens[g].out[i], gens[g].out[j])
                       /\ gens[g].out[i].global_idx < gens[g].out[j].global_idx

\* a finished ordered iteration that went from the second chunk back to the first
C4_Witness ==
    /\ strategy = "chunked"
    /\ \E g \in Gens :
         /\ gens[g].pc = "done" /\ gens[g].log_time_order /\ ~gens[g].reverse
         /\ Len(gens[g].out) = 4
         /\ gens[g].out[2].chunk_offset > gens[g].out[3].chunk_offset

(***************************************************************************)
(* C5. Within one iteration session, whatever the filters and the order,   *)
(* the k-th record emitted (from 0) carries global index k, and after it   *)
(* is emitted the index table has exactly k+1 entries, entry k being the   *)
(* (chunk offset, in-chunk position) of that record.  The session is one   *)
(* that had the index table to itself since it started.                    *)
(***************************************************************************)
C5_IndicesGapFreeAndRecorded ==
    strategy = "chunked" =>
      \A g \in Gens :
        /\ \A k \in 1..Len(gens[g].out) : gens[g].out[k].global_idx = k - 1
        /\ (gens[g].lone /\ gens[g].pc \in {"suspended", "done"})
           => /\ Len(index_map) = Len(gens[g].out)
              /\ \A k \in 1..Len(index_map) :
                    index_map[k] = <<gens[g].out[k].chunk_offset,
                                     gens[g].out[k].index_in_chunk>>

\* a filtered, reverse session suspended after its second record, started
\* when the table held entries of an earlier lookup
C5_Witness ==
    /\ strategy = "chunked"
    /\ \E g \in Gens :
         /\ gens[g].pc = "suspended" /\ gens[g].lone /\ gens[g].reverse
         /\ gens[g].topics # NoTopics
         /\ Len(gens[g].out) = 2 /\ Len(index_map) = 2
         /\ gens[g].out[2].global_idx = 1

(***************************************************************************)
(* C7. On a stream of exactly N records, asking for index N raises         *)
(* IndexError on both readers (get_message_by_index(N), get(N)), with the  *)
(* table cold, partly built or complete; never None, never a record.       *)
(***************************************************************************)
C7_IndexPastEndRaises ==
    /\ (strategy = "flat" /\ Valid /\ last.op = "get_message_by_index"
          /\ last.index = N)
       => last.res = IndexError
    /\ (strategy = "chunked" /\ got.res # NoCall /\ got.index = TotalMessages)
       => got.res = NotFound

(***************************************************************************)
(* C8. On both readers, a lookup of an index i in range made while the     *)
(* table does not reach i, followed at once by a second lookup of i on the *)
(* table the first one built, gives two equal results, both the record.    *)
(***************************************************************************)
C8_ColdThenWarmLookupAgree ==
    /\ (strategy = "flat" /\ last.op = "get_message_by_index" /\ last.cold
          /\ last.index < N)
       => /\ last.res.kind = "message"
          /\ get_message_by_index(Self, last.index).res = last.res
    /\ (strategy = "chunked" /\ got.cold /\ got.index < TotalMessages)
       => /\ got.res.kind = "message"
          /\ got.index < Len(index_map)
          /\ get(index_map, got.index).res = got.res

\* a cold lookup of record 1 on a flat stream of two records, the cache on
C8_Witness ==
    /\ strategy = "flat" /\ N = 2 /\ cache_messages
    /\ last.op = "get_message_by_index" /\ last.cold /\ last.index = 1
    /\ last.res.kind = "message"

\* where a record emitted lives: (chunk offset, in-chunk position)
Location(y) == <<y.chunk_offset, y.index_in_chunk>>

\* the messages of the container a generator's filters let through, by
\* location
Selected(g) ==
    UNION {{<<chunks[k].chunk_start_offset, i - 1>> :
               i \in {j \in 1..Len(chunks[k].records) :
                        LET r == chunks[k].records[j]
                        IN  /\ r.type = "Message"
                            /\ g.topics = NoTopics \/ r.topic \in g.topics
                            /\ g.start_time = NoTime \/ r.log_time >= g.start_time
                            /\ g.end_time = NoTime \/ r.log_time < g.end_time}} :
           k \in 1..Len(chunks)}

Again(g) ==
    Generator(g.topics, g.start_time, g.end_time, g.log_time_order, g.reverse)

(***************************************************************************)
(* C17. A fresh iteration run to its end gives what another fresh          *)
(* iteration with the same filters and ordering options gives on a reader  *)
(* just constructed: the same records in the same order with the same      *)
(* global indices, whatever the reader did before, and, when no other      *)
(* iteration ran meanwhile, the same index table.                          *)
(***************************************************************************)
C17_FreshIterationsAgree ==
    strategy = "chunked" =>
      \A g \in Gens :
        gens[g].pc \in {"suspended", "done"} =>
          LET ref == exhaust(Again(gens[g]), <<>>)
          IN  /\ IsPrefix(gens[g].out, ref.gen.out)
              /\ gens[g].pc = "done" => gens[g].out = ref.gen.out
              /\ (gens[g].pc = "done" /\ gens[g].lone)
                    => index_map = ref.index_map

\* a finished reverse iteration of four records that had the table to itself
C17_Witness ==
    /\ strategy = "chunked"
    /\ \E g \in Gens :
         /\ gens[g].pc = "done" /\ gens[g].lone /\ gens[g].reverse
         /\ Len(gens[g].out) = 4 /\ Len(index_map) = 4
         /\ gens[g].out[1].record.log_time > gens[g].out[4].record.log_time

(***************************************************************************)
(* C18. When an iteration session has emitted at least i+1 records and no  *)
(* other session has started since, get(i) finds the table warm and        *)
(* returns the record that session emitted with global index i: the record *)
(* at the recorded in-chunk position of the chunk at the recorded chunk    *)
(* offset; the index table is left as the session built it.                *)
(***************************************************************************)
C18_WarmLookupReturnsEmitted ==
    (strategy = "chunked" /\ got.res # NoCall) =>
      \A g \in Gens :
        (gens[g].lone /\ gens[g].pc \in {"suspended", "done"}
           /\ got.index < Len(gens[g].out))
        => LET y == gens[g].out[got.index + 1]
           IN  /\ ~got.cold
               /\ y.global_idx = got.index
               /\ got.res = Found(y.record)
               /\ got.res = seek_record(index_map[got.index + 1][1],
                                         index_map[got.index + 1][2])
               /\ index_map = [k \in 1..Len(gens[g].out) |->
                                  Location(gens[g].out[k])]

\* get(1) behind a filtered session suspended after two records, the first
\* chunk's record found behind its Channel record
C18_Witness ==
    /\ strategy = "chunked" /\ got.res.kind = "message" /\ got.index = 1
    /\ ~got.cold
    /\ \E g \in Gens :
         /\ gens[g].lone /\ gens[g].pc = "suspended" /\ Len(gens[g].out) = 2
         /\ gens[g].topics = {"a"}
         /\ gens[g].out[2].chunk_offset = chunks[1].chunk_start_offset

(***************************************************************************)
(* C19. An operation meaningful for one strategy only raises               *)
(* NotImplementedError when the other is active, returns nothing, and      *)
(* changes no state of the reader: retrieve_offsets, retrieve_message,     *)
(* get_message_by_index and get_messages_in_index_range on a               *)
(* multi-channel trace; get_available_topics, get_file_metadata and        *)
(* get_channel_metadata on a single-channel trace.                         *)
(***************************************************************************)
C19_OtherStrategyUnsupported ==
    [][/\ (/\ strategy = "multi"
           /\ last'.op \in {"retrieve_offsets", "retrieve_message",
                            "get_message_by_index", "get_messages_in_index_range"})
          => /\ last'.res = NotImplementedError
             /\ UNCHANGED <<multiVars, chunks>>
       /\ (/\ strategy = "flat"
           /\ last'.op \in {"get_available_topics", "get_file_metadata",
                            "get_channel_metadata"})
          => /\ last'.res = NotImplementedError
             /\ UNCHANGED <<singleVars, file>>]_vars

\* retrieve_offsets() on a multi-channel trace whose iteration is under way
C19_Witness ==
    /\ strategy = "multi" /\ last.op = "retrieve_offsets"
    /\ last.res = NotImplementedError
    /\ \E l \in Loops : loops[l].pc = "suspended" /\ Len(loops[l].out) = 1

(***************************************************************************)
(* C20. On a multi-channel trace restart(index) with an index given, 0     *)
(* included, raises NotImplementedError and leaves the iteration where it  *)
(* was: self._iter, the iterators and the running loops are untouched.     *)
(* restart() without index returns normally and resets self._iter, so      *)
(* that the next loop over the trace starts with the first message of the  *)
(* topic.                                                                  *)
(***************************************************************************)
C20_IndexedRestartRejected ==
    /\ [][(strategy = "multi" /\ last'.op = "restart")
          => IF last'.index # NoIndex
             THEN /\ last'.res = NotImplementedError
                  /\ UNCHANGED <<iter, iters, loops>>
             ELSE /\ last'.res = None
                  /\ iter' = 0
                  /\ UNCHANGED <<iters, loops>>]_vars
    /\ []((strategy = "multi" /\ iter = 0)
            => multi_next(Loop).loop.out
                 = <<ParseFromString(mcap_iter_messages(self_topic)[1])>>)

\* restart(0) while a loop is suspended behind its first message
C20_Witness ==
    /\ strategy = "multi" /\ last.op = "restart" /\ last.index = 0
    /\ last.res = NotImplementedError /\ iter # 0
    /\ \E l \in Loops : loops[l].pc = "suspended" /\ Len(loops[l].out) = 1

(***************************************************************************)
(* C23. Flat reader: every operation that jumps to an index i the offset   *)
(* table does not hold yet, i below the number of records of the stream -- *)
(* get_message_by_index(i), get_messages_in_index_range(i, ...),           *)
(* restart(i), retrieve_message(index=i) -- succeeds: it scans forward     *)
(* until the table covers i and does not raise.                            *)
(***************************************************************************)
C23_JumpBeyondTableScans ==
    (/\ strategy = "flat"
     /\ last.op \in {"get_message_by_index", "get_messages_in_index_range",
                     "restart", "retrieve_message"}
     /\ last.index # NoIndex /\ last.cold /\ last.index < N)
    => /\ last.res.kind # "IndexError"
       /\ last.index < Len(message_offsets)

(***************************************************************************)
(* C25. Flat reader: get_messages_in_index_range(begin, end) yields the    *)
(* messages with indexes begin through end inclusive, end - begin + 1 of   *)
(* them when the stream holds them all, and get_messages() yields all      *)
(* messages of the stream.                                                 *)
(***************************************************************************)
C25_RangeIncludesEnd ==
    /\ (/\ strategy = "flat" /\ last.op = "get_messages_in_index_range"
        /\ last.end # NoIndex /\ last.end < N)
       => /\ last.res.kind = "messages"
          /\ Len(last.res.tab) = last.end - last.index + 1
          /\ last.res.tab = SubSeq(Decoded, last.index + 1, last.end + 1)
    /\ (strategy = "flat" /\ last.op = "get_messages")
       => last.res = Messages(Decoded)

(***************************************************************************)
(* C27. Flat reader, cursor consistency: after every public operation, one *)
(* that raised included, current_index names the record at the stream      *)
(* position: the position is message_offsets[current_index] whenever       *)
(* current_index is within the table, and otherwise it is not before the   *)
(* last entry of the table.                                                *)
(***************************************************************************)
C27_CursorNamesPosition ==
    strategy = "flat"
    => IF current_index \in 0..(Len(message_offsets) - 1)
       THEN pos = message_offsets[current_index + 1]
       ELSE message_offsets = <<>> \/ pos >= SeqLast(message_offsets)

(***************************************************************************)
(* C28. Flat reader, cache coherence: with caching enabled every key i of  *)
(* the cache is the index of a complete record, the value stored under it  *)
(* is that record decoded, and the table's entry i, when the table holds   *)
(* it, is the offset where the bytes of that record start; no key holds    *)
(* two values.  This holds after any interleaving of iteration, restart,   *)
(* retrieve_offsets, indexed lookups and range iterations.                 *)
(***************************************************************************)
C28_CacheCoherent ==
    strategy = "flat"
    => /\ ~cache_messages => message_cache = {}
       /\ \A e \in message_cache :
            /\ e[1] \in 0..(N - 1)
            /\ e[2] = Decoded[e[1] + 1]
            /\ e[1] < Len(message_offsets)
               => message_offsets[e[1] + 1] = Starts[e[1] + 1]
       /\ \A e, f \in message_cache : e[1] = f[1] => e = f

\* both records of a stream are cached, after a read by explicit index and
\* with the table cut back by the end of the stream
C28_Witness ==
    /\ strategy = "flat" /\ cache_messages /\ N = 2 /\ read_complete
    /\ Cardinality(message_cache) = 2
    /\ last.op \in {"retrieve_message", "get_message_by_index"}
    /\ last.index = 1 /\ last.res = Message(Decoded[2])

(***************************************************************************)
(* C29. Flat reader, cache transparency: under the same sequence of        *)
(* iteration steps, restart, retrieve_offsets, get_message_by_index and    *)
(* get_messages_in_index_range, a reader with caching enabled returns what *)
(* a reader without caching returns, call by call, and has the same offset *)
(* table and the same current_index.                                       *)
(***************************************************************************)
C29_CacheIsTransparent ==
    (strategy = "flat" /\ twin.on)
    => /\ last.res = twin.res
       /\ message_offsets = twin.st.message_offsets
       /\ current_index = twin.st.current_index

(***************************************************************************)
(* C30. Flat reader: whatever the cache holds, a prefix of the requested   *)
(* range included, the k-th message yielded by                             *)
(* get_messages_in_index_range(begin, end) is the record with index        *)
(* begin + k: none is yielded twice and none is skipped.                   *)
(***************************************************************************)
C30_RangeYieldsRecordsInTurn ==
    (/\ strategy = "flat" /\ last.op = "get_messages_in_index_range"
     /\ last.res.kind = "messages")
    => /\ \A k \in 0..(Len(last.res.tab) - 1) :
            /\ last.index + k < N
            /\ last.res.tab[k + 1] = Decoded[last.index + k + 1]
       /\ (last.end = NoIndex /\ Valid) => Len(last.res.tab) = N - last.index
       /\ (last.end # NoIndex /\ last.end <= N)
          => Len(last.res.tab) = last.end - last.index

(***************************************************************************)
(* C24, as claimed.  The index structures are append-only between resets:  *)
(* no operation of the flat reader removes or changes an entry of the      *)
(* offset table (its length never decreases), and within one iteration     *)
(* session of the chunked reader no entry of the index table is removed    *)
(* or changed.                                                             *)
(***************************************************************************)
C24_Claimed_AppendOnly ==
    [][/\ strategy = "flat" => IsPrefix(message_offsets, message_offsets')
       /\ strategy = "chunked"
          => \/ IsPrefix(index_map, index_map')
             \/ \E g \in Gens : gens[g].pc = "created" /\ gens'[g].pc # "created"
             \/ got'.cold]_vars

(***************************************************************************)
(* C24.  No operation changes the value of an entry of either index        *)
(* structure.  On the flat reader a call appends entries and removes at    *)
(* most one: the last entry of the table, when a read that started at it   *)
(* found no complete record there; that entry is not the start of a        *)
(* complete record, and read_complete is set.  On the chunked reader the   *)
(* table only grows, except where a session starts: the first next() of a  *)
(* generator, or a lookup beyond the table, which rebuilds it.             *)
(***************************************************************************)
C24_AppendOnlyButSentinel ==
    [][/\ strategy = "flat"
          => \/ IsPrefix(message_offsets, message_offsets')
             \/ /\ message_offsets' = Front(message_offsets)
                /\ read_complete'
                /\ SeqLast(message_offsets) >= Starts[N + 1]
       /\ strategy = "chunked"
          => \/ IsPrefix(index_map, index_map')
             \/ \E g \in Gens : gens[g].pc = "created" /\ gens'[g].pc # "created"
             \/ got'.cold]_vars

\* the end of a two-record stream has just been found: the sentinel is gone,
\* the starts of both records are kept
C24_Witness ==
    /\ strategy = "flat" /\ N = 2 /\ Valid
    /\ read_complete /\ ~last.done
    /\ message_offsets = <<Starts[1], Starts[2]>>

\* the messages of the selected topic, decoded, in the order of the container
TopicMessages ==
    [k \in 1..Len(mcap_iter_messages(self_topic)) |->
        ParseFromString(mcap_iter_messages(self_topic)[k])]

(***************************************************************************)
(* C22. Facade on a multi-channel trace: iteration is stateful over the    *)
(* selected topic.  Every round of a loop yields the first message its     *)
(* iterator has not handed out yet, and a new loop takes the iterator the  *)
(* earlier loops used; so a loop started after an earlier one was          *)
(* abandoned continues behind the last message yielded, without repeating  *)
(* or skipping one, a loop started after exhaustion yields nothing, and    *)
(* after restart() the next loop yields all messages of the topic.         *)
(***************************************************************************)
C22_LoopsShareTheIterator ==
    /\ [][strategy = "multi"
          => \A l \in Loops :
               (loops'[l] # loops[l] /\ loops'[l].pc \in {"suspended", "done"})
               => LET it == loops'[l].it
                      handed == IF it \in 1..Len(iters) THEN iters[it] ELSE 0
                  IN  /\ loops[l].pc = "created"
                         => it = IF iter = 0 THEN Len(iters) + 1 ELSE iter
                      /\ IF handed < Len(TopicMessages)
                         THEN /\ loops'[l].out
                                   = Append(loops[l].out, TopicMessages[handed + 1])
                              /\ iters'[it] = handed + 1
                         ELSE /\ loops'[l].pc = "done"
                              /\ loops'[l].out = loops[l].out]_vars
    /\ [](strategy = "multi"
            => multi_list = IF iter = 0
                            THEN TopicMessages
                            ELSE SubSeq(TopicMessages, iters[iter] + 1,
                                        Len(TopicMessages)))

\* a loop whose first message is the second of its iterator: an earlier
\* loop took the first one and was abandoned
C22_Witness ==
    /\ strategy = "multi" /\ iter # 0
    /\ \E l \in Loops :
         /\ loops[l].pc = "suspended" /\ loops[l].it = iter
         /\ Len(loops[l].out) = 1 /\ iters[iter] = 2
         /\ loops[l].out[1] = TopicMessages[2]
         /\ TopicMessages[1] # TopicMessages[2]

(***************************************************************************)
(* C21. Chunked reader: starting a new iteration discards the state of the *)
(* session before it and rebuilds it.  The first next() of a generator     *)
(* leaves in the index table nothing but the entry of the message it       *)
(* emits, numbered 0; and however far an earlier iteration has come, a     *)
(* generator not yet started, run to its end, emits what it emits on a     *)
(* reader just opened: every message its filters select, from the first    *)
(* one, and the table then lists exactly these.                            *)
(***************************************************************************)
C21_NewIterationStartsOver ==
    /\ [][strategy = "chunked"
          => \A g \in DOMAIN gens :
               (gens[g].pc = "created" /\ gens'[g].pc \in {"suspended", "done"})
               => LET out == gens'[g].out
                  IN  /\ index_map' = [k \in 1..Len(out) |-> Location(out[k])]
                      /\ Len(out) <= 1
                      /\ \A k \in 1..Len(out) : out[k].global_idx = 0
                      /\ gens'[g].global_idx = Len(out)
                      /\ gens'[g].pc = "done" => Selected(gens[g]) = {}]_vars
    /\ [](strategy = "chunked"
            => \A g \in DOMAIN gens :
                 /\ gens[g].pc = "created"
                    => LET r == exhaust(gens[g], index_map)
                       IN  /\ r.gen.out = exhaust(gens[g], <<>>).gen.out
                           /\ {Location(r.gen.out[k]) : k \in 1..Len(r.gen.out)}
                                 = Selected(gens[g])
                           /\ r.index_map
                                 = [k \in 1..Len(r.gen.out) |-> Location(r.gen.out[k])]
                 /\ gens[g].pc = "done"
                    => gens[g].out = exhaust(Again(gens[g]), <<>>).gen.out)

\* one iteration has emitted three messages and is kept; a second one has
\* made its first step: the table holds its one entry, numbered 0
C21_Witness ==
    /\ strategy = "chunked"
    /\ \E g, h \in DOMAIN gens :
         /\ g # h
         /\ gens[h].pc = "suspended" /\ Len(gens[h].out) = 3
         /\ gens[g].pc = "suspended" /\ Len(gens[g].out) = 1
         /\ gens[g].out[1].global_idx = 0
         /\ index_map = <<Location(gens[g].out[1])>>

\* every message of the container in the order a plain iteration emits them
AllMessages == exhaust(Generator(NoTopics, NoTime, NoTime, TRUE, FALSE), <<>>).gen.out

\* get, the decoder of a channel: a step that asks the factories is one
\* whose channel has no decoder stored, and it stores the one returned;
\* every other step leaves the store alone; a message is returned only
\* for a channel whose decoder is stored by then
DecoderResolvedOnce ==
    [][strategy = "chunked"
       => /\ decoders \subseteq decoders'
          /\ got'.resolved
             => /\ got'.res.kind = "message"
                /\ got'.res.record.topic \notin decoders
                /\ got'.res.record.topic \in factories
                /\ decoders' = decoders \cup {got'.res.record.topic}
          /\ ~got'.resolved => decoders' = decoders
          /\ got'.res.kind = "message" => got'.res.record.topic \in decoders']_vars

\* get raises DecoderNotFoundError exactly when the record at the index is a
\* message of a channel no factory has a decoder for
DecoderNotFoundWhenNoFactory ==
    (strategy = "chunked" /\ got.res # NoCall)
    => LET at == index_map[got.index + 1]
       IN  /\ got.res = DecoderNotFoundError
              => /\ got.index < Len(index_map)
                 /\ seek_record(at[1], at[2]).kind = "message"
                 /\ seek_record(at[1], at[2]).record.topic \notin factories
           /\ got.res.kind = "message" => got.res.record.topic \in factories
           /\ decoders \subseteq factories

(***************************************************************************)
(* C26, as claimed.  get resolves the decoder of a channel from the        *)
(* factories at most once and uses the stored one afterwards; when no      *)
(* factory has a decoder get raises DecoderNotFoundError, returns no       *)
(* value, stores no decoder and leaves the index table unchanged.          *)
(***************************************************************************)
C26_Claimed_ErrorLeavesTable ==
    /\ DecoderResolvedOnce
    /\ []DecoderNotFoundWhenNoFactory
    /\ [][(strategy = "chunked" /\ got'.res = DecoderNotFoundError)
          => decoders' = decoders /\ index_map' = index_map]_vars

(***************************************************************************)
(* C26.  get resolves the decoder of a channel from the factories at most  *)
(* once and uses the stored one afterwards; when no factory has a decoder  *)
(* get raises DecoderNotFoundError, returns no value and stores no         *)
(* decoder.  The index table is left as the lookup found it when it        *)
(* already reached the index; a lookup beyond the table has rebuilt it up  *)
(* to the index before the decoder is asked for, and the error leaves the  *)
(* rebuilt table in place.                                                 *)
(***************************************************************************)
C26_DecoderOnceErrorKeepsIndex ==
    /\ DecoderResolvedOnce
    /\ []DecoderNotFoundWhenNoFactory
    /\ [][(strategy = "chunked" /\ got'.res = DecoderNotFoundError)
          => /\ decoders' = decoders
             /\ ~got'.cold => index_map' = index_map]_vars
    /\ []((strategy = "chunked" /\ got.res = DecoderNotFoundError /\ got.cold)
            => index_map = [k \in 1..(got.index + 1) |-> Location(AllMessages[k])])

\* the decoder of one channel is stored; a lookup beyond the table of a
\* message of the other channel, which has no decoder, has raised and left
\* the table rebuilt up to its index
C26_Witness ==
    /\ strategy = "chunked" /\ decoders # {} /\ factories = decoders
    /\ got.res = DecoderNotFoundError /\ got.cold /\ got.index = 1
    /\ Len(index_map) = 2

(***************************************************************************)
(* C35. Flat reader: restart(index) changes only the read cursor,          *)
(* current_index and the stream position; the offset table, the message    *)
(* cache and read_complete are left as they were, whether it returns or    *)
(* raises, so the index state persists across restarts; restart() and      *)
(* restart(0) have the same effect.                                        *)
(***************************************************************************)
C35_RestartMovesCursorOnly ==
    /\ [][(strategy = "flat" /\ last'.op = "restart")
          => UNCHANGED <<message_offsets, message_cache, read_complete, file>>]_vars
    /\ [](strategy = "flat" => restart(Self, NoIndex) = restart(Self, 0))

\* restart(1) on a reader that has read a two-record stream to its end with
\* the cache on: the cursor is at record 1, table and cache are kept
C35_Witness ==
    /\ strategy = "flat" /\ N = 2 /\ Valid /\ cache_messages
    /\ last.op = "restart" /\ last.index = 1 /\ last.res = None
    /\ read_complete /\ Cardinality(message_cache) = 2
    /\ message_offsets = <<Starts[1], Starts[2]>>
    /\ current_index = 1 /\ pos = Starts[2]

(***************************************************************************)
(* C32. Flat reader: skip reads and decoding reads agree on the record     *)
(* boundaries.  From the same reader state a skip read returns an offset   *)
(* exactly when a decoding read returns a message, and both leave the same *)
(* offset table; so on every stream, truncated or not, the table reached   *)
(* by retrieve_offsets() alone on a new reader equals the table reached by *)
(* a full decoding iteration alone.                                        *)
(***************************************************************************)
C32_SkipAgreesWithDecode ==
    strategy = "flat" =>
        /\ LET skipped == retrieve_message(Self, NoIndex, TRUE)
               decoded == retrieve_message(Self, NoIndex, FALSE)
           IN  /\ (skipped.res.kind = "offset") <=> (decoded.res.kind = "message")
               /\ skipped.st.message_offsets = decoded.st.message_offsets
        /\ retrieve_offsets(Fresh, NoLimit).st.message_offsets
               = iterated(Fresh).message_offsets

\* what get(global_index) returns on a reader on which nothing was called
\* before: the cold lookup runs iter_messages() with no filter and stops at
\* the record it labels global_index
FirstLookup(global_index) ==
    IF global_index < Len(AllMessages)
    THEN Found(AllMessages[global_index + 1].record)
    ELSE NotFound

(***************************************************************************)
(* C33. Chunked reader: the record get(i) returns does not depend on the   *)
(* filters of earlier iterations nor on the indices looked up before.      *)
(* Whatever iter_messages calls (any topics, any time range) and get calls *)
(* came first, get(i) returns what it returns on a reader with no history: *)
(* the i-th record of the container in log-time order, or IndexError.      *)
(***************************************************************************)
C33_LookupIgnoresEarlierFilters ==
    (strategy = "chunked" /\ got.res # NoCall) => got.res = FirstLookup(got.index)

(***************************************************************************)
(* C31. Chunked reader, sessions interleaved on one reader: a second       *)
(* iter_messages() is started while an earlier generator is suspended, and *)
(* the earlier one is resumed later.  Every session here iterates without  *)
(* filter, so the record emitted with global index i is the same in all of *)
(* them, AllMessages[i + 1].  In every reachable state, for every i below  *)
(* the length of the index table, entry i is the location of that record,  *)
(* and get(i) returns it.                                                  *)
(***************************************************************************)
C31_TableEntryIsEmittedRecord ==
    strategy = "chunked" =>
        \A i \in 0..(Len(index_map) - 1) :
            /\ i < Len(AllMessages)
            /\ AllMessages[i + 1].global_idx = i
            /\ index_map[i + 1] = Location(AllMessages[i + 1])
            /\ get(index_map, i).res = Found(AllMessages[i + 1].record)

(***************************************************************************)
(* C34. Flat reader: retrieve_offsets(limit) terminates on every finite    *)
(* stream from every reachable state.  Each step of its loop either        *)
(* appends one entry to the offset table or sets read_complete.  When it   *)
(* returns, read_complete holds or the table has more than limit entries,  *)
(* and with limit None or 0 read_complete holds.  get_message_by_index,    *)
(* which runs that loop, terminates as well.                               *)
(***************************************************************************)
C34_OffsetsLoopTerminates ==
    /\ (strategy = "flat" /\ last.res = InLoop) ~> (last.res # InLoop)
    /\ [][(strategy = "flat" /\ last.res = InLoop /\ more_offsets(Self, last.index))
          => \/ /\ Len(message_offsets') = Len(message_offsets) + 1
                /\ SubSeq(message_offsets', 1, Len(message_offsets)) = message_offsets
                /\ ~read_complete'
                /\ last'.res = InLoop
             \/ /\ read_complete'
                /\ last'.res = InLoop]_vars
    /\ []((strategy = "flat" /\ last.op = "retrieve_offsets" /\ last.res # InLoop)
          => /\ last.res = Table(message_offsets)
             /\ read_complete \/ (last.index > 0 /\ Len(message_offsets) > last.index)
             /\ last.index <= 0 => read_complete)
    /\ []((strategy = "flat" /\ last.res = InLoop)
          => /\ ~Raised(offsets_loop(Self, last.index))
             /\ ~more_offsets(offsets_loop(Self, last.index).st, last.index))

\* retrieve_offsets() on a stream of two records, in its loop: two steps
\* have appended an entry each, the third will find the end of the stream
C34_Witness ==
    /\ strategy = "flat" /\ N = 2 /\ Valid
    /\ last.op = "retrieve_offsets" /\ last.index = NoLimit /\ last.res = InLoop
    /\ message_offsets = <<Starts[1], Starts[2], Starts[3]>>
    /\ ~read_complete /\ pos = Starts[3] /\ current_index = 2
    /\ more_offsets(Self, last.index)

====
